---- MODULE Spec2Model ----
(***************************************************************************)
(* The bi-objective integer program of MOIP.cpp (variables, constraints,   *)
(* objectives) and the Pareto walker extend_pareto / solve_objective /     *)
(* add_solution.  Probabilities and motif scores are scaled to integers;   *)
(* the MILP solver is an oracle that returns any optimal assignment.       *)
(***************************************************************************)
EXTENDS Integers, Sequences, FiniteSets, Bags, TLC

\* ------------------------------------------------------------------ bounds
\* At most MaxPairs entries of the matrix p are non-zero.
MaxPairs == 3
\* The sequence lengths of the runs that vary n.
Lengths == 7..9
\* The RNA length n of the runs: two left ends (0 and 1) can pair.
Length == 6 + 2

\* The non-zero values of p(u,v), probabilities in units of 1/2, and the
\* thresholds theta in the same unit.
Levels == {1, 2}

Thetas == {0, 1}

\* The motif scores.
Scores == {1, 2}

\* `uint` of MOIP.cpp is a 32-bit unsigned integer, so 0 - 1 is 2^32 - 1.  The
\* model checker's integers are 32-bit signed; the largest of them stands for
\* that value (both are above every sequence length).
UIntMax == 2147483647

\* u - 1 on a uint.
WrapDec(u) == IF u = 0 THEN UIntMax ELSE u - 1

\* a - b on a uint.
USub(a, b) == IF a >= b THEN a - b ELSE UIntMax - (b - a) + 1

Min2(a, b) == IF a < b THEN a ELSE b

\* The number of iterations of "for (i = lo; i <= hi; i++)".
Span(lo, hi) == IF hi < lo THEN 0 ELSE hi - lo + 1

\* The sequence lo, lo+1, ..., hi of the values of a for loop's index.
Range(lo, hi) == [k \in 1..Span(lo, hi) |-> lo + k - 1]

RECURSIVE FlattenSeq(_)
FlattenSeq(ss) == IF ss = <<>> THEN <<>> ELSE Head(ss) \o FlattenSeq(Tail(ss))

RECURSIVE SumSeq(_)
SumSeq(s) == IF s = <<>> THEN 0 ELSE Head(s) + SumSeq(Tail(s))

\* ------------------------------------------------------------------ inputs
\* The loop "for (u = 0; u < n - 6; u++)" has n - 6 on a uint: below n = 6 it
\* wraps.  Only the rows u < n - 4 get an element (v = u + 4 < n), so the model
\* keeps the first Rows(n) rows: at most n of them.
Rows(n) == Min2(USub(n, 6), n)

\* The pairs (u,v) the constructor's double loop visits.
CandPairs(n) == {<<u, v>> \in (0..(Rows(n) - 1)) \X (0..(n - 1)) : v >= u + 4}

\* Component(pair): pos = [first, second], k = 1 + second - first.
Component(first, second) == [first |-> first, second |-> second, k |-> 1 + second - first]

\* ------------------------------------------------ MOIP::MOIP, decision variables
\* The value the constructor stores for a pair whose probability is not above theta.
NoIndex(n) == n * n + 1

\* A std::vector with the given elements: element i of the vector is element
\* i + 1 of the sequence (the concatenation makes the sequence an explicit
\* tuple of its elements).
Vector(s) == s \o <<>>

\* A variant of IndexOfYuv that tests p(u,v) >= theta.
IndexOfYuv_AtLeastTheta(n, p, theta) ==
    Vector([u1 \in 1..Rows(n) |->
        Vector([j1 \in 1..Span(u1 + 3, n - 1) |->
            IF p[<<u1 - 1, u1 + 2 + j1>>] >= theta
            THEN Cardinality({q \in CandPairs(n) :
                                /\ p[q] >= theta
                                /\ \/ q[1] < u1 - 1
                                   \/ q[1] = u1 - 1 /\ q[2] < u1 + 2 + j1})
            ELSE NoIndex(n)])])

\* index_of_yuv_[u][v - 4 - u]: the running counter c for a pair with
\* p(u,v) > theta, n*n+1 otherwise.  c counts the allowed pairs visited before.
IndexOfYuv(n, p, theta) ==
    Vector([u1 \in 1..Rows(n) |->
        Vector([j1 \in 1..Span(u1 + 3, n - 1) |->
            IF p[<<u1 - 1, u1 + 2 + j1>>] > theta
            THEN Cardinality({q \in CandPairs(n) :
                                /\ p[q] > theta
                                /\ \/ q[1] < u1 - 1
                                   \/ q[1] = u1 - 1 /\ q[2] < u1 + 2 + j1})
            ELSE NoIndex(n)])])

\* index_of_Cxip_[x][i]: components are numbered in site order.
IndexOfCxip(sites) ==
    Vector([x \in 1..Len(sites) |->
        Vector([i1 \in 1..Len(sites[x].comp) |->
            SumSeq([w \in 1..(x - 1) |-> Len(sites[w].comp)]) + i1 - 1])])

\* ------------------------------------------------------------------ state
VARIABLES
    rna_,                       \* [n, pij]: length and base-pair probabilities
    theta_,                     \* probability threshold
    insertion_sites_,           \* sequence of motif sites [comp, score]
    index_of_yuv_,              \* variable index of every candidate pair
    index_of_Cxip_,             \* variable index of every component
    index_of_first_components,  \* variable index of component 0 of every site
    basepair_dv_,               \* number of y variables (they are 0..basepair_dv_-1)
    insertion_dv_,              \* number of C variables
    model_,                     \* the constraints, objective and range in the model
    obj1,                       \* the motif objective, a linear expression
    obj2,                       \* the expected-accuracy objective
    cplex_,                     \* the solver: [errors, status], whether its calls can
                                \* fail with an error, and how the last call ended
    feasible_,                  \* the assignments that satisfy all of model_, i.e.
                                \* Feasible(model_): what IloCplex(model_) searches
    pareto_,                    \* the Pareto set, a sequence of structures
    frame,                      \* the pending extend_pareto call: [pc, lambdaMin]
    solved,                     \* history: assignments returned by solve_objective
    delivered,                  \* history: structures passed to add_solution
    \* --- class RNA (Motif.cpp): the pairing probabilities of a sequence
    seq_,                       \* the sequence, a tuple of nucleotides
    fast,                       \* argument of compute_posterior_noPK_ON4
    uninit_,                    \* weight exp(-E/RT) of a table entry never loaded
    loop,                       \* [fn, l, ran]: the function running, the length l of
                                \* its outer loop, the iterations i of the parallel
                                \* loop that have run at this l
    Q, Qb, Qm,                  \* partition functions: cell -> [v, w, t]
    Qs, Qms, Qx, Qx1, Qx2,      \* the further matrices of the O(N^3) algorithm
    P, Pb, Pm,                  \* posterior matrices: cell -> value
    snap,                       \* [Pb, Pm] as they were when the current l began
    accesses,                   \* i -> [reads, writes]: cells each iteration of the
                                \* current l has read and written
    \* --- the search of the components of a motif on the sequence (Motif.cpp)
    finder,                     \* [rna, vc, pc, results]: a call of find_next_ones_in
    \* --- the constructors of Motif that read a motif from text (Motif.cpp)
    decoder,                    \* [fields, csv_line, pc, comp]: Motif(csv_line)
    reader,                     \* [records, closed, line, pc, links_]: the links
                                \* line of a RIN file of Carnaval
    \* --- a call of one of the loop energy functions of RNA (Motif.cpp)
    energy                      \* [fn, i, h, m, j, pc, result]

moip_vars == <<rna_, theta_, insertion_sites_, index_of_yuv_, index_of_Cxip_,
               index_of_first_components, basepair_dv_, insertion_dv_, model_,
               obj1, obj2, cplex_, feasible_, pareto_, frame, solved, delivered>>

rna_vars == <<seq_, fast, uninit_, loop, Q, Qb, Qm, Qs, Qms, Qx, Qx1, Qx2,
              P, Pb, Pm, snap, accesses>>

motif_vars == <<finder>>

parser_vars == <<decoder, reader>>

energy_vars == <<energy>>

vars == <<moip_vars, rna_vars, motif_vars, parser_vars, energy_vars>>

\* No RNA object is being constructed (the runs of MOIP take p as given).
RNAIdle ==
    /\ seq_ = <<>>
    /\ fast = FALSE
    /\ uninit_ = 0
    /\ loop = [fn |-> "idle", l |-> 0, ran |-> {}]
    /\ Q = <<>> /\ Qb = <<>> /\ Qm = <<>>
    /\ Qs = <<>> /\ Qms = <<>> /\ Qx = <<>> /\ Qx1 = <<>> /\ Qx2 = <<>>
    /\ P = <<>> /\ Pb = <<>> /\ Pm = <<>>
    /\ snap = <<>>
    /\ accesses = <<>>

\* No motif is being searched.
FinderIdle == finder = [rna |-> <<>>, vc |-> <<>>, pc |-> "idle", results |-> <<>>]

\* No motif is being read from a file.
DecoderIdle == decoder = [fields |-> <<>>, csv_line |-> <<>>, pc |-> "idle", comp |-> <<>>]

ReaderIdle ==
    reader = [records |-> <<>>, closed |-> FALSE, line |-> <<>>, pc |-> "idle",
              links_ |-> <<>>]

ParsersIdle == DecoderIdle /\ ReaderIdle

\* No loop energy is being computed on its own.
EnergyIdle ==
    energy = [fn |-> "idle", i |-> 0, h |-> 0, m |-> 0, j |-> 0, pc |-> "idle",
              result |-> <<>>]

\* ------------------------------------------------ index lookups, allowed pairs
get_yuv_index(u, v) ==
    LET a == IF u < v THEN u ELSE v
        b == IF u > v THEN u ELSE v
    IN  index_of_yuv_[a + 1][b - 4 - a + 1]

get_Cpxi_index(x_i, i_on_j) == index_of_Cxip_[x_i + 1][i_on_j + 1]

allowed_basepair(u, v) ==
    LET a == IF v > u THEN u ELSE v
        b == IF v > u THEN v ELSE u
    IN  IF b - a < 4 THEN FALSE
        ELSE IF a >= USub(rna_.n, 6) THEN FALSE
        ELSE IF b >= rna_.n THEN FALSE
        ELSE IF get_yuv_index(a, b) = rna_.n * rna_.n + 1 THEN FALSE
        ELSE TRUE

\* The decision variables y(u,v) and C(x,i), named by their array and index.
y(u, v) == <<"y", get_yuv_index(u, v)>>

C(x, i) == <<"C", get_Cpxi_index(x, i)>>

\* The constant 1 inside a linear expression.
One == <<"1", 0>>

\* A linear expression is a sequence of terms <<coefficient, variable>>.
\* YTerms: the loop "if (allowed_basepair(u,v)) c += coef * y(u,v)" over a
\* sequence of pairs; its length is the loop's count.
YTerms(coef, ps) ==
    LET ok == SelectSeq(ps, LAMBDA q : allowed_basepair(q[1], q[2]))
    IN  [k \in 1..Len(ok) |-> <<coef, y(ok[k][1], ok[k][2])>>]

\* Pairs <<u0, lo>>, ..., <<u0, hi>> and <<lo, v0>>, ..., <<hi, v0>> of a loop.
PairsFrom(u0, lo, hi) == [k \in 1..Span(lo, hi) |-> <<u0, lo + k - 1>>]

PairsTo(v0, lo, hi) == [k \in 1..Span(lo, hi) |-> <<lo + k - 1, v0>>]

\* The constraints a loop adds: those of its iterations whose guard held.
Emitted(cs) ==
    LET sel == SelectSeq(cs, LAMBDA e : e.emit)
    IN  [k \in 1..Len(sel) |-> sel[k].cons]

Comp(x, j) == insertion_sites_[x + 1].comp[j + 1]

NComp(x) == Len(insertion_sites_[x + 1].comp)

\* All (site, component) index pairs in the order of the nested loops.
AllComps ==
    FlattenSeq([w \in 1..Len(insertion_sites_) |->
                   [j \in 1..Len(insertion_sites_[w].comp) |-> <<w - 1, j - 1>>]])

\* ------------------------------------------------ define_problem_constraints
\* A variant of K1 whose guard is "count > 2".
K1_CountAbove2(u) ==
    LET n  == rna_.n
        c1 == YTerms(1, PairsTo(u, 0, u - 1)) \o YTerms(1, PairsFrom(u, u + 4, n - 1))
    IN  [emit |-> Len(c1) > 2,
         cons |-> [kind |-> "le", lhs |-> c1, rhs |-> <<<<1, One>>>>]]

\* "ensure there only is 0 or 1 pairing by nucleotide"
K1(u) ==
    LET n  == rna_.n
        c1 == YTerms(1, PairsTo(u, 0, u - 1)) \o YTerms(1, PairsFrom(u, u + 4, n - 1))
    IN  [emit |-> Len(c1) > 1,
         cons |-> [kind |-> "le", lhs |-> c1, rhs |-> <<<<1, One>>>>]]

\* "forbid lonely basepairs", s[u] paired to s[v], v > u.  u is a uint: u - 1 wraps at 0.
K2(u) ==
    LET n   == rna_.n
        um1 == WrapDec(u)
        mid == YTerms(-1, PairsFrom(u, u + 1, n - 1))
        c2  == YTerms(1, PairsFrom(um1, u, n - 1)) \o mid
               \o YTerms(1, PairsFrom(u + 1, u + 2, n - 1))
    IN  [emit |-> Len(mid) > 0,
         cons |-> [kind |-> "ge", lhs |-> c2, rhs |-> <<>>]]

\* A variant of K2p whose guard is that of K1, "count > 1".
K2p_CountAbove1(v) ==
    LET mid == YTerms(-1, PairsTo(v, 0, v - 1))
        c2p == YTerms(1, PairsTo(v - 1, 0, v - 2)) \o mid
               \o YTerms(1, PairsTo(v + 1, 0, v))
    IN  [emit |-> Len(mid) > 1,
         cons |-> [kind |-> "ge", lhs |-> c2p, rhs |-> <<>>]]

\* "forbid lonely basepairs", s[u] paired to s[v], v < u.
K2p(v) ==
    LET mid == YTerms(-1, PairsTo(v, 0, v - 1))
        c2p == YTerms(1, PairsTo(v - 1, 0, v - 2)) \o mid
               \o YTerms(1, PairsTo(v + 1, 0, v))
    IN  [emit |-> Len(mid) > 0,
         cons |-> [kind |-> "ge", lhs |-> c2p, rhs |-> <<>>]]

\* "Forbid pairings inside every motif component if included".  The loop runs
\* u = first + 1 while u < second - 1 in uint arithmetic; for u >= n no pair is
\* allowed, so the positions above n - 1 add no term.
K3(x, j) ==
    LET n   == rna_.n
        c   == Comp(x, j)
        kxi == c.k
        hi  == Min2(WrapDec(c.second) - 1, n - 1)
        ys  == YTerms(1, [k \in 1..(Span(c.first + 1, hi) * n) |->
                             <<c.first + 1 + ((k - 1) \div n), (k - 1) % n>>])
        c3  == <<<<kxi - 2, C(x, j)>>>> \o ys
    IN  [emit |-> Len(ys) > 1,
         cons |-> [kind |-> "le", lhs |-> c3, rhs |-> <<<<kxi - 2, One>>>>]]

\* A variant of K4 whose guard is "nterms > 2".
K4_TermsAbove2(u) ==
    LET cov == SelectSeq(AllComps, LAMBDA q :
                  u >= Comp(q[1], q[2]).first /\ u <= Comp(q[1], q[2]).second)
        c4 == [k \in 1..Len(cov) |-> <<1, C(cov[k][1], cov[k][2])>>]
    IN  [emit |-> Len(c4) > 2,
         cons |-> [kind |-> "le", lhs |-> c4, rhs |-> <<<<1, One>>>>]]

\* "Forbid component overlap"
K4(u) ==
    LET cov == SelectSeq(AllComps, LAMBDA q :
                  u >= Comp(q[1], q[2]).first /\ u <= Comp(q[1], q[2]).second)
        c4 == [k \in 1..Len(cov) |-> <<1, C(cov[k][1], cov[k][2])>>]
    IN  [emit |-> Len(c4) > 1,
         cons |-> [kind |-> "le", lhs |-> c4, rhs |-> <<<<1, One>>>>]]

\* A variant of K5 that adds c5 <= jm1 * C(i, 0) instead of the equality.
K5_AtMost(x) ==
    LET c5  == [j \in 1..(NComp(x) - 1) |-> <<1, C(x, j)>>]
        jm1 == NComp(x) - 1
    IN  [emit |-> NComp(x) # 1,
         cons |-> [kind |-> "le", lhs |-> c5, rhs |-> <<<<jm1, C(x, 0)>>>>]]

\* "Component completeness"
K5(x) ==
    LET c5  == [j \in 1..(NComp(x) - 1) |-> <<1, C(x, j)>>]
        jm1 == NComp(x) - 1
    IN  [emit |-> NComp(x) # 1,
         cons |-> [kind |-> "eq", lhs |-> c5, rhs |-> <<<<jm1, C(x, 0)>>>>]]

\* A variant of K6first that adds the constraint only when the closing pair
\* is allowed (otherwise the constraint it adds is 0 <= 0).
K6first_OnlyIfAllowed(x) ==
    LET first == Comp(x, 0).first
        last  == Comp(x, NComp(x) - 1).second
    IN  IF allowed_basepair(first, last)
        THEN [kind |-> "le", lhs |-> <<<<1, C(x, 0)>>>>, rhs |-> <<<<1, y(first, last)>>>>]
        ELSE [kind |-> "le", lhs |-> <<>>, rhs |-> <<>>]

\* "Force basepairs between the end of a component and the beginning of the next"
K6first(x) ==
    LET first == Comp(x, 0).first
        last  == Comp(x, NComp(x) - 1).second
        c6p   == IF allowed_basepair(first, last) THEN <<<<1, y(first, last)>>>> ELSE <<>>
    IN  [kind |-> "le", lhs |-> <<<<1, C(x, 0)>>>>, rhs |-> c6p]

K6link(x, j) ==
    LET a  == Comp(x, j).second
        b  == Comp(x, j + 1).first
        c6 == IF allowed_basepair(a, b) THEN <<<<1, y(a, b)>>>> ELSE <<>>
    IN  [kind |-> "le", lhs |-> <<<<1, C(x, j)>>>>, rhs |-> c6]

K6(x) ==
    <<K6first(x)>>
    \o (IF NComp(x) = 1 THEN <<>>
        ELSE [j \in 1..(NComp(x) - 1) |-> K6link(x, j - 1)])

define_problem_constraints ==
    LET n == rna_.n
        m == Len(insertion_sites_)
    IN  Emitted([k \in 1..n |-> K1(k - 1)])
        \o Emitted([k \in 1..n |-> K2(k - 1)])
        \o Emitted([k \in 1..(n - 2) |-> K2p(k + 1)])
        \o Emitted([k \in 1..Len(AllComps) |-> K3(AllComps[k][1], AllComps[k][2])])
        \o Emitted([k \in 1..n |-> K4(k - 1)])
        \o Emitted([k \in 1..m |-> K5(k - 1)])
        \o FlattenSeq([k \in 1..m |-> K6(k - 1)])

\* The two objectives as the constructor builds them.
Obj1Expr ==
    [k \in 1..Len(insertion_sites_) |->
        <<insertion_sites_[k].score, <<"C", index_of_first_components[k]>>>>]

Obj2Expr ==
    LET n  == rna_.n
        ps == FlattenSeq([k \in 1..Rows(n) |-> PairsFrom(k - 1, k + 3, n - 1)])
        ok == SelectSeq(ps, LAMBDA q : allowed_basepair(q[1], q[2]))
    IN  [k \in 1..Len(ok) |-> <<rna_.pij[ok[k]], y(ok[k][1], ok[k][2])>>]

\* ------------------------------------------------ assignments and their values
\* A 0/1 assignment: the indices of the y and of the C variables that are 1.
Assignments == [y : SUBSET (0..(basepair_dv_ - 1)), C : SUBSET (0..(insertion_dv_ - 1))]

Val(a, var) ==
    IF var[1] = "y" THEN (IF var[2] \in a.y THEN 1 ELSE 0)
    ELSE IF var[1] = "C" THEN (IF var[2] \in a.C THEN 1 ELSE 0)
    ELSE 1

RECURSIVE Value(_, _)
Value(e, a) == IF e = <<>> THEN 0 ELSE Head(e)[1] * Val(a, Head(e)[2]) + Value(Tail(e), a)

\* lambdaMin / lambdaMax: <<>> is an infinite bound, <<b>> the finite bound b.
Holds(c, a) ==
    CASE c.kind = "le" -> Value(c.lhs, a) <= Value(c.rhs, a)
      [] c.kind = "ge" -> Value(c.lhs, a) >= Value(c.rhs, a)
      [] c.kind = "eq" -> Value(c.lhs, a) = Value(c.rhs, a)
      [] c.kind = "range" -> /\ (c.lo = <<>> \/ c.lo[1] <= Value(c.lhs, a))
                             /\ (c.hi = <<>> \/ Value(c.lhs, a) <= c.hi[1])
      [] c.kind = "max" -> TRUE

\* The assignments that satisfy every constraint of the model m.
Feasible(m) == {a \in Assignments : \A k \in 1..Len(m) : Holds(m[k], a)}

\* ------------------------------------------------ SecondaryStructure
\* operator>: s1 dominates s2.
Dominates(s1, s2) ==
    /\ s1.obj1 >= s2.obj1
    /\ s1.obj2 >= s2.obj2
    /\ (s1.obj1 > s2.obj1 \/ s1.obj2 > s2.obj2)

\* SecondaryStructure(true): the marker returned when the solver finds nothing.
EmptyStructure ==
    [is_empty_structure |-> TRUE, motifs |-> {}, basepairs |-> {}, obj1 |-> 0, obj2 |-> 0]

\* The structure solve_objective builds from the solver's values.
BuildStructure(a) ==
    [is_empty_structure |-> FALSE,
     motifs    |-> {x \in 0..(Len(insertion_sites_) - 1) :
                       index_of_first_components[x + 1] \in a.C},
     basepairs |-> {q \in CandPairs(rna_.n) :
                       allowed_basepair(q[1], q[2]) /\ Val(a, y(q[1], q[2])) = 1},
     obj1      |-> Value(obj1, a),
     obj2      |-> Value(obj2, a)]

\* ------------------------------------------------ MOIP::solve_objective
\* "Forbidding to find best_ss later": sum of (1 - x_d) over the variables at 1
\* and of x_d over the variables at 0, >= 1.
ForbidTerms(name, size, ones) ==
    FlattenSeq([k \in 1..size |->
                   IF (k - 1) \in ones
                   THEN <<<<1, One>>, <<-1, <<name, k - 1>>>>>>
                   ELSE <<<<1, <<name, k - 1>>>>>>])

\* A variant of ForbidClause that adds x_d for every variable, also for those
\* at 1.
ForbidClause_NoComplement(a) ==
    [kind |-> "ge",
     lhs  |-> ForbidTerms("C", insertion_dv_, {}) \o ForbidTerms("y", basepair_dv_, {}),
     rhs  |-> <<<<1, One>>>>]

\* A variant of ForbidClause over the pairing variables only.
ForbidClause_PairsOnly(a) ==
    [kind |-> "ge",
     lhs  |-> ForbidTerms("y", basepair_dv_, a.y),
     rhs  |-> <<<<1, One>>>>]

ForbidClause(a) ==
    [kind |-> "ge",
     lhs  |-> ForbidTerms("C", insertion_dv_, a.C) \o ForbidTerms("y", basepair_dv_, a.y),
     rhs  |-> <<<<1, One>>>>]

\* model_.remove(item)
RemoveItem(m, item) == SelectSeq(m, LAMBDA e : e # item)

\* The assignments of the set F that also satisfy the items m[from..Len(m)].
Restrict(F, m, from) == {a \in F : \A k \in from..Len(m) : Holds(m[k], a)}

\* A variant of Solve in which the solver returns any assignment of the range,
\* of maximal objective or not.
Solve_AnyInRange(goal, other, m, F, min, max) ==
    LET obj    == [kind |-> "max", lhs |-> goal]
        bounds == [kind |-> "range", lo |-> min, lhs |-> other, hi |-> max]
        m1     == m \o <<obj, bounds>>
        feas   == Restrict(F, m1, Len(m) + 1)
        none   == [y |-> {}, C |-> {}]
    IN  IF feas = {}
        THEN {[a |-> none, ss |-> EmptyStructure, model |-> m1, status |-> "Infeasible"]}
        ELSE {[a |-> a, ss |-> BuildStructure(a),
               model |-> RemoveItem(RemoveItem(Append(m1, ForbidClause(a)), obj), bounds),
               status |-> "Solved"]
                 : a \in feas}

\* The body of solve_objective after the switch: `goal` is maximised on the
\* model m, whose feasible assignments are F, with `other` in [min, max].  The
\* solver may return any feasible assignment of maximal objective; when there
\* is none the function returns before it removes the objective and the range.
\* An exception of the solver leaves solve_objective and extend_pareto, which
\* catch nothing.
Solve(goal, other, m, F, min, max) ==
    LET obj    == [kind |-> "max", lhs |-> goal]
        bounds == [kind |-> "range", lo |-> min, lhs |-> other, hi |-> max]
        m1     == m \o <<obj, bounds>>
        feas   == Restrict(F, m1, Len(m) + 1)
        vals   == {Value(goal, a) : a \in feas}
        best   == CHOOSE w \in vals : \A w2 \in vals : w2 <= w
        none   == [y |-> {}, C |-> {}]
        \* A solver error: cplex_.solve() throws, or returns false as it does
        \* whenever it has no solution to give.
        errs   == IF cplex_.errors
                  THEN {[a |-> none, ss |-> EmptyStructure, model |-> m1, status |-> st]
                           : st \in {"Exception", "Error"}}
                  ELSE {}
    IN  errs \cup
        (IF feas = {}
         THEN {[a |-> none, ss |-> EmptyStructure, model |-> m1, status |-> "Infeasible"]}
         ELSE {[a |-> a, ss |-> BuildStructure(a),
                model |-> RemoveItem(RemoveItem(Append(m1, ForbidClause(a)), obj), bounds),
                status |-> "Solved"]
                  : a \in {b \in feas : Value(goal, b) = best}})

\* A variant of solve_objective whose switch takes case 1 whatever o is.
solve_objective_Case1(o, m, F, min, max) == Solve(obj1, obj2, m, F, min, max)

\* The outcomes of solve_objective(o, min, max): objective o is maximised with
\* the other objective in [min, max].
solve_objective(o, m, F, min, max) ==
    IF o = 1 THEN Solve(obj1, obj2, m, F, min, max)
    ELSE Solve(obj2, obj1, m, F, min, max)

\* ------------------------------------------------ MOIP::is_undominated_yet
\* A variant of is_undominated_yet with the comparison reversed, "s > pareto_[i]".
is_undominated_yet_Reversed(p, s) == \A i \in 1..Len(p) : ~Dominates(s, p[i])

is_undominated_yet(p, s) == \A i \in 1..Len(p) : ~Dominates(p[i], s)

\* ------------------------------------------------ MOIP::add_solution
\* pareto_.erase(pareto_.begin() + i), i counted from 0.
Erase(p, i) == [k \in 1..(Len(p) - 1) |-> IF k <= i THEN p[k] ELSE p[k + 1]]

\* for (i = to_remove.size() - 1; i != 0; i--) erase(to_remove[i])
RECURSIVE EraseLoop(_, _, _)
EraseLoop(p, to_remove, i) ==
    IF i = 0 THEN p ELSE EraseLoop(Erase(p, to_remove[i + 1]), to_remove, i - 1)

\* A variant of add_solution that erases nothing.
add_solution_NoErase(p, s) == Append(p, s)

\* A variant of add_solution without the erase of to_remove[0] that follows
\* the loop.
add_solution_LoopOnly(p, s) ==
    LET to_remove == SelectSeq(Range(0, Len(p) - 1), LAMBDA i : Dominates(s, p[i + 1]))
        kept      == IF Len(to_remove) > 0
                     THEN EraseLoop(p, to_remove, Len(to_remove) - 1)
                     ELSE p
    IN  Append(kept, s)

add_solution(p, s) ==
    LET to_remove == SelectSeq(Range(0, Len(p) - 1), LAMBDA i : Dominates(s, p[i + 1]))
        kept      == IF Len(to_remove) > 0
                     THEN Erase(EraseLoop(p, to_remove, Len(to_remove) - 1), to_remove[1])
                     ELSE p
    IN  Append(kept, s)

\* ------------------------------------------------ MOIP::MOIP
\* index_of_yuv_ = vector<vector<size_t>>(n - 6, ...): can the rows be
\* allocated?  With n - 6 wrapped the vector has 2^32 - 1 rows (about 100 GB):
\* the allocation throws std::bad_alloc or succeeds, as the machine allows.
Allocates(n) == IF USub(n, 6) > n THEN {TRUE, FALSE} ELSE {TRUE}

\* The constructor, first half: the decision variables and their index tables.
\* An exception of the allocation leaves the constructor: no MOIP object, no
\* Pareto set.
MOIP_variables ==
    /\ frame.pc = "new"
    /\ \E ok \in Allocates(rna_.n) :
          IF ok
          THEN /\ index_of_yuv_' = IndexOfYuv(rna_.n, rna_.pij, theta_)
               /\ basepair_dv_' =
                     Cardinality({q \in CandPairs(rna_.n) : rna_.pij[q] > theta_})
               /\ index_of_Cxip_' = IndexOfCxip(insertion_sites_)
               /\ index_of_first_components' =
                     Vector([x \in 1..Len(insertion_sites_) |->
                                IndexOfCxip(insertion_sites_)[x][1]])
               /\ insertion_dv_' =
                     SumSeq([x \in 1..Len(insertion_sites_) |->
                                Len(insertion_sites_[x].comp)])
               /\ frame' = [pc |-> "constraints", lambdaMin |-> <<>>]
          ELSE /\ frame' = [pc |-> "bad_alloc", lambdaMin |-> <<>>]
               /\ UNCHANGED <<index_of_yuv_, basepair_dv_, index_of_Cxip_,
                              index_of_first_components, insertion_dv_>>
    /\ UNCHANGED <<rna_, theta_, insertion_sites_, model_, obj1, obj2, cplex_,
                   feasible_, pareto_, solved, delivered>>
    /\ UNCHANGED <<rna_vars, motif_vars, parser_vars, energy_vars>>

\* The constructor, second half: model_ = IloModel(env_);
\* define_problem_constraints(); then the two objectives.  main then calls
\* extend_pareto(-inf, +inf).
MOIP_constraints ==
    /\ frame.pc = "constraints"
    /\ model_' = define_problem_constraints
    /\ obj1' = Obj1Expr
    /\ obj2' = Obj2Expr
    /\ feasible_' = Feasible(model_')
    /\ frame' = [pc |-> "call", lambdaMin |-> <<>>]
    /\ UNCHANGED <<rna_, theta_, insertion_sites_, index_of_yuv_, index_of_Cxip_,
                   index_of_first_components, basepair_dv_, insertion_dv_, cplex_,
                   pareto_, solved, delivered>>
    /\ UNCHANGED <<rna_vars, motif_vars, parser_vars, energy_vars>>

\* ------------------------------------------------ MOIP::extend_pareto
\* One call extend_pareto(lambdaMin, +inf): the solve, then either add_solution
\* and the recursive call (the next step), or the return.
extend_pareto ==
    /\ frame.pc = "call"
    /\ \E r \in solve_objective(2, model_, feasible_, frame.lambdaMin, <<>>) :
          /\ model_' = r.model
          /\ cplex_' = [cplex_ EXCEPT !.status = r.status]
          /\ feasible_' = Restrict(feasible_, r.model, Len(model_) + 1)
          /\ IF r.status = "Exception"
             THEN /\ frame' = [pc |-> "exception", lambdaMin |-> frame.lambdaMin]
                  /\ UNCHANGED <<pareto_, solved, delivered>>
             ELSE IF ~r.ss.is_empty_structure
             THEN /\ solved' = Append(solved, r.a)
                  /\ IF is_undominated_yet(pareto_, r.ss)
                     THEN /\ pareto_' = add_solution(pareto_, r.ss)
                          /\ delivered' = Append(delivered, r.ss)
                          /\ frame' = [pc |-> "call", lambdaMin |-> <<r.ss.obj1>>]
                     ELSE /\ frame' = [pc |-> "done", lambdaMin |-> frame.lambdaMin]
                          /\ UNCHANGED <<pareto_, delivered>>
             ELSE /\ frame' = [pc |-> "done", lambdaMin |-> frame.lambdaMin]
                  /\ UNCHANGED <<pareto_, solved, delivered>>
    /\ UNCHANGED <<rna_, theta_, insertion_sites_, index_of_yuv_, index_of_Cxip_,
                   index_of_first_components, basepair_dv_, insertion_dv_, obj1, obj2>>
    /\ UNCHANGED <<rna_vars, motif_vars, parser_vars, energy_vars>>

Next == MOIP_variables \/ MOIP_constraints \/ extend_pareto

\* ------------------------------------------------ the inputs of one run
\* Matrices p over the candidate pairs with at most MaxPairs non-zero entries,
\* each a level of Levels (a probability in units of 1/2).
PMatrices(n) ==
    UNION {{[q \in CandPairs(n) |-> IF q \in S THEN f[q] ELSE 0] : f \in [S -> Levels]}
              : S \in {T \in SUBSET CandPairs(n) : Cardinality(T) <= MaxPairs}}

\* One-component sites [a,b] whose closing pair (a,b) is a candidate pair.
OneComp(n) == {<<Component(q[1], q[2])>> : q \in CandPairs(n)}

\* Two-component sites, the components at least 5 apart (the distance the site
\* locator leaves between consecutive components).
TwoComp(n) ==
    {<<Component(0, w), Component(n - 1 - w, n - 1)>> : w \in 0..1}

\* Two sites that share nucleotide 1: [0,b] and the pair of components {1}, {b+1}.
TwoSites(n) ==
    {<<[comp |-> <<Component(0, b)>>, score |-> s],
       [comp |-> <<Component(1, 1), Component(b + 1, b + 1)>>, score |-> 1]>>
        : b \in 4..(n - 2), s \in Scores}

SiteLists(n) ==
    {<<>>}
    \cup {<<[comp |-> sh, score |-> 1]>> : sh \in OneComp(n) \cup TwoComp(n)}
    \cup TwoSites(n)

Init ==
    /\ rna_ \in [n : {Length}, pij : PMatrices(Length)]
    /\ theta_ \in Thetas
    /\ insertion_sites_ \in SiteLists(Length)
    /\ index_of_yuv_ = <<>>
    /\ basepair_dv_ = 0
    /\ index_of_Cxip_ = <<>>
    /\ index_of_first_components = <<>>
    /\ insertion_dv_ = 0
    /\ model_ = <<>>
    /\ obj1 = <<>>
    /\ obj2 = <<>>
    /\ cplex_ = [errors |-> FALSE, status |-> "Unknown"]
    /\ feasible_ = {}
    /\ pareto_ = <<>>
    /\ frame = [pc |-> "new", lambdaMin |-> <<>>]
    /\ solved = <<>>
    /\ delivered = <<>>
    /\ RNAIdle
    /\ FinderIdle
    /\ ParsersIdle
    /\ EnergyIdle

Spec == Init /\ [][Next]_vars

\* Runs in which any set of candidate pairs may be allowed (p is 0 or 1, theta
\* is 0), with no site or one one-component site.
InitPairs ==
    /\ rna_ \in [n : {Length}, pij : [CandPairs(Length) -> {0, 1}]]
    /\ theta_ = 0
    /\ insertion_sites_ \in
          {<<>>} \cup {<<[comp |-> sh, score |-> 1]>> : sh \in OneComp(Length)}
    /\ index_of_yuv_ = <<>>
    /\ basepair_dv_ = 0
    /\ index_of_Cxip_ = <<>>
    /\ index_of_first_components = <<>>
    /\ insertion_dv_ = 0
    /\ model_ = <<>>
    /\ obj1 = <<>>
    /\ obj2 = <<>>
    /\ cplex_ = [errors |-> FALSE, status |-> "Unknown"]
    /\ feasible_ = {}
    /\ pareto_ = <<>>
    /\ frame = [pc |-> "new", lambdaMin |-> <<>>]
    /\ solved = <<>>
    /\ delivered = <<>>
    /\ RNAIdle
    /\ FinderIdle
    /\ ParsersIdle
    /\ EnergyIdle

SpecPairs == InitPairs /\ [][Next]_vars

\* Runs over several sequence lengths, without motif sites.
InitLengths ==
    /\ rna_ \in UNION {[n : {n}, pij : PMatrices(n)] : n \in Lengths}
    /\ theta_ \in Thetas
    /\ insertion_sites_ = <<>>
    /\ index_of_yuv_ = <<>>
    /\ basepair_dv_ = 0
    /\ index_of_Cxip_ = <<>>
    /\ index_of_first_components = <<>>
    /\ insertion_dv_ = 0
    /\ model_ = <<>>
    /\ obj1 = <<>>
    /\ obj2 = <<>>
    /\ cplex_ = [errors |-> FALSE, status |-> "Unknown"]
    /\ feasible_ = {}
    /\ pareto_ = <<>>
    /\ frame = [pc |-> "new", lambdaMin |-> <<>>]
    /\ solved = <<>>
    /\ delivered = <<>>
    /\ RNAIdle
    /\ FinderIdle
    /\ ParsersIdle
    /\ EnergyIdle

SpecLengths == InitLengths /\ [][Next]_vars

\* Sequences of length 5 and 6, with no site or one site of one component
\* [a,b] anywhere on the sequence.
ShortLengths == {5, 6}

ShortSites(n) ==
    {<<>>}
    \cup {<<[comp |-> <<Component(a, b)>>, score |-> sc]>>
             : a \in 0..(n - 1), b \in 0..(n - 1), sc \in Scores}

InitShort ==
    /\ rna_ \in UNION {[n : {n}, pij : PMatrices(n)] : n \in ShortLengths}
    /\ theta_ \in Thetas
    /\ insertion_sites_ \in ShortSites(rna_.n)
    /\ \A x \in 1..Len(insertion_sites_) :
          insertion_sites_[x].comp[1].first <= insertion_sites_[x].comp[1].second
    /\ index_of_yuv_ = <<>>
    /\ basepair_dv_ = 0
    /\ index_of_Cxip_ = <<>>
    /\ index_of_first_components = <<>>
    /\ insertion_dv_ = 0
    /\ model_ = <<>>
    /\ obj1 = <<>>
    /\ obj2 = <<>>
    /\ cplex_ = [errors |-> FALSE, status |-> "Unknown"]
    /\ feasible_ = {}
    /\ pareto_ = <<>>
    /\ frame = [pc |-> "new", lambdaMin |-> <<>>]
    /\ solved = <<>>
    /\ delivered = <<>>
    /\ RNAIdle
    /\ FinderIdle
    /\ ParsersIdle
    /\ EnergyIdle

SpecShort == InitShort /\ [][Next]_vars

\* Runs whose solver calls can also fail with an error, without motif sites.
InitErrors ==
    /\ rna_ \in [n : {Length}, pij : PMatrices(Length)]
    /\ theta_ = 0
    /\ insertion_sites_ = <<>>
    /\ index_of_yuv_ = <<>>
    /\ basepair_dv_ = 0
    /\ index_of_Cxip_ = <<>>
    /\ index_of_first_components = <<>>
    /\ insertion_dv_ = 0
    /\ model_ = <<>>
    /\ obj1 = <<>>
    /\ obj2 = <<>>
    /\ cplex_ = [errors |-> TRUE, status |-> "Unknown"]
    /\ feasible_ = {}
    /\ pareto_ = <<>>
    /\ frame = [pc |-> "new", lambdaMin |-> <<>>]
    /\ solved = <<>>
    /\ delivered = <<>>
    /\ RNAIdle
    /\ FinderIdle
    /\ ParsersIdle
    /\ EnergyIdle

SpecErrors == InitErrors /\ [][Next]_vars

\* extend_pareto runs in one thread and each of its steps is a solver call that
\* returns (the solver never times out), so a pending call is carried out.
LiveSpec == InitPairs /\ [][Next]_vars /\ WF_vars(extend_pareto)

\* ------------------------------------------------------------------ properties
\* The constructor has run: the index tables and the constraints exist.
Built == frame.pc \in {"call", "done"}

\* The pairs (u,v) with y(u,v) = 1 in the assignment a.
PairsOf(a) ==
    {q \in CandPairs(rna_.n) :
        allowed_basepair(q[1], q[2]) /\ get_yuv_index(q[1], q[2]) \in a.y}

\* The nucleotides that are an end of a pair of a.
PairedEnds(a) == {q[1] : q \in PairsOf(a)} \cup {q[2] : q \in PairsOf(a)}

\* C(x,i) = 1 in the assignment a.
Selected(a, x, i) == get_Cpxi_index(x, i) \in a.C

SiteIds == 0..(Len(insertion_sites_) - 1)

CompIds(x) == 0..(NComp(x) - 1)

\* The pairs K6 forces for site x: the closing pair and the links.
ForcedPairs(x) ==
    {<<Comp(x, 0).first, Comp(x, NComp(x) - 1).second>>}
    \cup {<<Comp(x, j).second, Comp(x, j + 1).first>> : j \in 0..(NComp(x) - 2)}

RECURSIVE Pow2(_)
Pow2(k) == IF k = 0 THEN 1 ELSE 2 * Pow2(k - 1)

\* C1: after every add_solution call and at termination, no structure of
\* pareto_ dominates another structure of pareto_.
C1_NoDomination ==
    \A i \in 1..Len(pareto_) : \A j \in 1..Len(pareto_) :
        ~Dominates(pareto_[i], pareto_[j])

\* An add_solution call has erased a structure that the new one dominates.
C1_Witness == Len(pareto_) >= 1 /\ Len(delivered) > Len(pareto_)

\* C2: at termination every assignment feasible under the constraints of
\* define_problem_constraints is equalled or dominated in (obj1, obj2) by a
\* structure of pareto_.
C2_CoversFrontier ==
    frame.pc = "done" =>
        \A a \in Feasible(define_problem_constraints) :
            \E i \in 1..Len(pareto_) :
                /\ pareto_[i].obj1 >= Value(obj1, a)
                /\ pareto_[i].obj2 >= Value(obj2, a)

\* C3: the obj1 values of the structures passed to add_solution, in call
\* order, never decrease.
C3_MonotoneObj1 ==
    \A i \in 1..(Len(delivered) - 1) : delivered[i].obj1 <= delivered[i + 1].obj1

\* Two structures were delivered, the second with a larger obj1.
C3_Witness ==
    \E i \in 1..(Len(delivered) - 1) : delivered[i].obj1 < delivered[i + 1].obj1

\* C4: solve_objective never returns an assignment it has returned before, and
\* the forbid clause of every returned assignment is still in the model.
C4_NeverAgain ==
    /\ \A i \in 1..Len(solved) : \A j \in 1..Len(solved) :
           i < j => solved[i] # solved[j]
    /\ \A i \in 1..Len(solved) :
           \E k \in 1..Len(model_) : model_[k] = ForbidClause(solved[i])

\* Three solves have returned an assignment.
C4_Witness == Len(solved) >= 3

\* C5: extend_pareto(-inf,+inf) terminates: once called the walker reaches its
\* return, the number of solves that returned an assignment never exceeds the
\* number of 0/1 assignments, and the chain ends with an infeasible solve
\* (whose range is the last item left in the model) or with a solution that a
\* structure of the set dominates.
C5_Terminates ==
    /\ (frame.pc = "call") ~> (frame.pc = "done")
    /\ [](Len(solved) <= Pow2(basepair_dv_ + insertion_dv_))
    /\ [](frame.pc = "done" =>
             \/ model_[Len(model_)].kind = "range"
             \/ /\ Len(solved) > 0
                /\ \E i \in 1..Len(pareto_) :
                      Dominates(pareto_[i], BuildStructure(solved[Len(solved)])))

\* The walker has returned after at least three solves found an assignment.
C5_Witness == frame.pc = "done" /\ Len(solved) >= 3

\* C6: in a feasible assignment with C(x,i) = 1 no pair with y = 1 has an end
\* strictly inside component i of site x.
C6_NoPairInside ==
    Built =>
        \A a \in feasible_ : \A x \in SiteIds : \A i \in CompIds(x) :
            Selected(a, x, i) =>
                \A u \in (Comp(x, i).first + 1)..(Comp(x, i).second - 1) :
                    u \notin PairedEnds(a)

C8_OnePairing ==
    Built =>
        \A a \in feasible_ :
            LET ps == PairsOf(a)
            IN  \A u \in 0..(rna_.n - 1) :
                    Cardinality({q \in ps : q[1] = u \/ q[2] = u}) <= 1

\* Some nucleotide has two or more allowed pairs, another exactly one, and a
\* feasible assignment pairs both.
C8_Witness ==
    /\ frame.pc = "call"
    /\ \E a \in feasible_ : \E u, w \in PairedEnds(a) :
          /\ u # w
          /\ Cardinality({q \in CandPairs(rna_.n) :
                 allowed_basepair(q[1], q[2]) /\ (q[1] = u \/ q[2] = u)}) >= 2
          /\ Cardinality({q \in CandPairs(rna_.n) :
                 allowed_basepair(q[1], q[2]) /\ (q[1] = w \/ q[2] = w)}) = 1

\* C9: a feasible assignment with C(x,0) = 1 has y = 1 on the closing pair and
\* on every link pair of x; when one of these pairs is not allowed no component
\* of x is selected in any feasible assignment, and no structure of the Pareto
\* set holds the motif.
C9_ClosingPairs ==
    Built =>
        /\ \A a \in feasible_ : \A x \in SiteIds :
              /\ Selected(a, x, 0) =>
                    \A q \in ForcedPairs(x) :
                        allowed_basepair(q[1], q[2]) /\ Val(a, y(q[1], q[2])) = 1
              /\ (\E q \in ForcedPairs(x) : ~allowed_basepair(q[1], q[2])) =>
                    \A i \in CompIds(x) : ~Selected(a, x, i)
        /\ \A k \in 1..Len(pareto_) : \A x \in pareto_[k].motifs :
              \A q \in ForcedPairs(x) :
                  allowed_basepair(q[1], q[2]) /\ q \in pareto_[k].basepairs

\* The Pareto set holds a structure with a two-component motif, while the
\* closing pair of the other site is not allowed.
C9_Witness ==
    /\ Built
    /\ \E k \in 1..Len(pareto_) : \E x \in pareto_[k].motifs : NComp(x) = 2
    /\ \E x \in SiteIds : \E q \in ForcedPairs(x) : ~allowed_basepair(q[1], q[2])

\* C10: in a feasible assignment, and in every structure of the Pareto set, no
\* nucleotide lies in two distinct selected components.
C10_NoOverlap ==
    Built =>
        /\ \A a \in feasible_ : \A u \in 0..(rna_.n - 1) :
              Cardinality({q \in {AllComps[k] : k \in 1..Len(AllComps)} :
                              /\ Selected(a, q[1], q[2])
                              /\ Comp(q[1], q[2]).first <= u
                              /\ u <= Comp(q[1], q[2]).second}) <= 1
        /\ \A k \in 1..Len(pareto_) : \A x1, x2 \in pareto_[k].motifs :
              x1 # x2 =>
                 \A i1 \in CompIds(x1) : \A i2 \in CompIds(x2) :
                    \/ Comp(x1, i1).second < Comp(x2, i2).first
                    \/ Comp(x2, i2).second < Comp(x1, i1).first

\* Two sites share a nucleotide and the Pareto set holds a structure with one
\* of them inserted.
C10_Witness ==
    /\ Built
    /\ Len(insertion_sites_) = 2
    /\ \E k \in 1..Len(pareto_) : pareto_[k].motifs # {}

\* C11: in a feasible assignment the components of a site with two or more
\* components are all selected or all unselected, and the motifs of the
\* structure solve_objective builds from a returned assignment (those whose
\* component 0 is selected) are the sites whose components are all selected.
C11_AllOrNothing ==
    Built =>
        /\ \A a \in feasible_ : \A x \in SiteIds :
              NComp(x) >= 2 =>
                 \/ \A i \in CompIds(x) : Selected(a, x, i)
                 \/ \A i \in CompIds(x) : ~Selected(a, x, i)
        /\ \A k \in 1..Len(solved) :
              BuildStructure(solved[k]).motifs =
                 {x \in SiteIds : \A i \in CompIds(x) : Selected(solved[k], x, i)}

\* solve_objective has returned an assignment in which a site with two
\* components is selected, and one in which it is not.
C11_Witness ==
    /\ Built
    /\ \E k \in 1..Len(solved) : \E x \in SiteIds :
          NComp(x) = 2 /\ \A i \in CompIds(x) : Selected(solved[k], x, i)
    /\ \E k \in 1..Len(solved) : \E x \in SiteIds :
          NComp(x) = 2 /\ \A i \in CompIds(x) : ~Selected(solved[k], x, i)

\* The indices allowed_basepair is called with: 0..n (v + 1 at v = n - 1 is n),
\* n + 1, and 0 - 1 on a uint.
ProbeIndices == (0..(rna_.n + 1)) \cup {WrapDec(0)}

\* The pairs the constructor is to create a variable for.
WantedPairs == {q \in CandPairs(rna_.n) : rna_.pij[q] > theta_}

\* C12: once the variables are created, index_of_yuv_ gives an index of its
\* own, among 0..basepair_dv_-1, exactly to the pairs (u,v) with 0 <= u < n-6,
\* u+4 <= v < n and p(u,v) > theta, basepair_dv_ counts these pairs, and
\* allowed_basepair(u,v) and allowed_basepair(v,u) are true exactly for them,
\* also for the indices 0 - 1 and n.
C12_VariablesAndAllowed ==
    frame.pc \in {"constraints", "call", "done"} =>
        /\ basepair_dv_ = Cardinality(WantedPairs)
        /\ \A q \in CandPairs(rna_.n) :
              IF q \in WantedPairs
              THEN get_yuv_index(q[1], q[2]) \in 0..(basepair_dv_ - 1)
              ELSE get_yuv_index(q[1], q[2]) = NoIndex(rna_.n)
        /\ \A q1, q2 \in WantedPairs :
              q1 # q2 => y(q1[1], q1[2]) # y(q2[1], q2[2])
        /\ \A u, v \in ProbeIndices :
              /\ allowed_basepair(u, v) = (<<u, v>> \in WantedPairs \/ <<v, u>> \in WantedPairs)
              /\ allowed_basepair(v, u) = allowed_basepair(u, v)

\* The variables are created for a length other than 8, one pair is above the
\* threshold and another has a non-zero probability that is not above it.
C12_Witness ==
    /\ frame.pc \in {"constraints", "call", "done"}
    /\ rna_.n # Length
    /\ WantedPairs # {}
    /\ \E q \in CandPairs(rna_.n) : rna_.pij[q] > 0 /\ rna_.pij[q] <= theta_

\* C13: for n = 5 and n = 6 the constructor completes and creates no y
\* variable, and the walker returns a Pareto set of exactly one structure,
\* without pairs or motifs and with obj1 = 0 and obj2 = 0.
C13_ShortSequence ==
    rna_.n \in ShortLengths =>
        /\ frame.pc # "bad_alloc"
        /\ basepair_dv_ = 0
        /\ frame.pc = "done" =>
              /\ Len(pareto_) = 1
              /\ pareto_[1].basepairs = {} /\ pareto_[1].motifs = {}
              /\ pareto_[1].obj1 = 0 /\ pareto_[1].obj2 = 0

\* C14: a solve_objective call (the step of extend_pareto) leaves in the
\* model the items it had before the call and at most one more, a forbid
\* clause: the objective and the range are gone when it returns, whether or
\* not the solver found a solution.
C14_ModelRestored ==
    [][frame.pc = "call" =>
          \/ model_' = model_
          \/ /\ Len(model_') = Len(model_) + 1
             /\ SubSeq(model_', 1, Len(model_)) = model_
             /\ \E a \in feasible_ : model_'[Len(model_')] = ForbidClause(a)]_vars

\* C15: a solver call that fails with an error is not taken for "no more
\* solutions": extend_pareto does not return normally after such a call, with
\* the set accumulated so far as the result.
C15_ErrorNotSwallowed ==
    frame.pc = "done" => cplex_.status # "Error"

\* ------------------------------------------------ class RNA: values and energies
\* The matrices hold floats; the model keeps of a float whether it is zero (0),
\* positive (1) or not a number (NaN). Energies enter as weights exp(-E/RT),
\* which are positive for every finite E.
NaN == 2

Mul(a, b) == IF a = NaN \/ b = NaN THEN NaN ELSE a * b

Div(a, b) ==
    IF a = NaN \/ b = NaN THEN NaN
    ELSE IF b = 0 THEN (IF a = 0 THEN NaN ELSE 1)
    ELSE a

\* The sum of a set of terms.
AddAll(S) == IF NaN \in S THEN NaN ELSE IF 1 \in S THEN 1 ELSE 0

n_ == Len(seq_)

Cells == (0..(n_ - 1)) \X (0..(n_ - 1))

\* pair_map as the constructor fills it; every other pair is PAIR_OTHER.
PAIR_OTHER == <<"N", "N">>

pair_type(i, j) ==
    LET p == <<seq_[i + 1], seq_[j + 1]>>
    IN  IF p \in {<<"A", "U">>, <<"U", "A">>, <<"C", "G">>,
                  <<"G", "C">>, <<"G", "U">>, <<"U", "G">>}
        THEN p ELSE PAIR_OTHER

\* The weight of an entry of a table indexed by pair types: load_default_parameters
\* fills the entries of the six pair types only.
Entry(types) == IF PAIR_OTHER \in types THEN uninit_ ELSE 1

\* The weight exp(-GHL(i,j)/RT) of the hairpin closed by (i,j).
GHL(i, j) ==
    LET size == j - i - 1
    IN  IF size = 3 THEN 1 ELSE Entry({pair_type(i, j)})

\* The weight exp(-GIL(i,h,m,j)/RT) of the interior loop between (i,j) and (h,m).
GIL(i, h, m, j) ==
    LET l1        == h - i - 1
        l2        == j - m - 1
        size      == l1 + l2
        asymmetry == IF l1 > l2 THEN l1 - l2 ELSE l2 - l1
    IN  IF size = 0 THEN Entry({pair_type(i, j), pair_type(h, m)})
        ELSE IF l1 = 0 \/ l2 = 0
        THEN IF l1 + l2 = 1 THEN Entry({pair_type(i, j), pair_type(h, m)}) ELSE 1
        ELSE IF asymmetry > 1 \/ size > 4
        THEN IF l1 > 1 /\ l2 > 1
             THEN Entry({pair_type(m, h), pair_type(i, j)})
             ELSE uninit_
        ELSE IF l1 = 2 /\ l2 = 1 THEN Entry({pair_type(m, h), pair_type(j, i)})
        ELSE Entry({pair_type(i, j), pair_type(h, m)})

\* ------------------------------------------------ class RNA: partition function
\* A cell of a matrix: its value v and the iteration <<l, i>> that wrote it last
\* (<<0, 0>> for MatrixXf::Zero).
Zero == [c \in Cells |-> [v |-> 0, w |-> <<0, 0>>]]

\* The same for Qb, Qx, Qx1, Qx2, whose cells also keep t: the bag of the
\* interior-loop terms [d, e, E] summed into the cell, E being the summands of
\* the energy of the loop down to the pair (d,e).
ZeroT == [c \in Cells |-> [v |-> 0, w |-> <<0, 0>>, t |-> EmptyBag]]

\* Qx2.setZero() in the sequential part of length l.
setZero(l) == [c \in Cells |-> [v |-> 0, w |-> <<l, -1>>, t |-> EmptyBag]]

\* The summands of GIL(i,h,m,j): those of a loop with l1, l2 > 1 that is not
\* tabulated, Gloop(l1 + l2) and the asymmetry penalty of GIL_asymmetry and two
\* GIL_mismatch; any other loop is kept as the call itself.
GILTerm(i, h, m, j) ==
    LET l1        == h - i - 1
        l2        == j - m - 1
        size      == l1 + l2
        asymmetry == IF l1 > l2 THEN l1 - l2 ELSE l2 - l1
    IN  IF l1 > 1 /\ l2 > 1 /\ (asymmetry > 1 \/ size > 4)
        THEN {<<"Gloop", size, 0, 0, 0>>,
              <<"asymmetry", asymmetry, Min2(4, Min2(l1, l2)), 0, 0>>,
              <<"mismatch", m, h, m + 1, h - 1>>,
              <<"mismatch", i, j, i + 1, j - 1>>}
        ELSE {<<"GIL", i, h, m, j>>}

\* The terms Qb(d,e) * exp(-GIL(i,d,e,j)/RT) for the pairs (d,e) of S.
GILTerms(i, j, S) ==
    SetToBag({[d |-> c[1], e |-> c[2], E |-> GILTerm(i, c[1], c[2], j)] : c \in S})

\* Q after the loops for l = 2, 3, 4.
QShort ==
    [c \in Cells |->
        IF c[2] - c[1] + 1 \in 2..4
        THEN [v |-> 1, w |-> <<c[2] - c[1] + 1, c[1]>>]
        ELSE [v |-> 0, w |-> <<0, 0>>]]

\* The iterations i of the parallel loop at length l.
Iterations(l) == 0..(n_ - l)

\* #pragma omp parallel for: NumThreads threads share the iterations of one l in
\* contiguous chunks, and a thread runs its chunk in increasing i.
NumThreads == 2

ChunkSize(l) == (n_ - l + NumThreads) \div NumThreads

Thread(l, i) == i \div ChunkSize(l)

Schedulable(l, ran) ==
    {i \in Iterations(l) \ ran :
        \A k \in Iterations(l) : k < i /\ Thread(l, k) = Thread(l, i) => k \in ran}

\* The pairs (d,e) of the Qm and Q recursions of [i,j], and of the P, Pm recursion.
Rightmost_PastJ(i, j) ==
    {c \in Cells : c[1] >= i /\ c[1] <= j - 4 /\ c[2] >= c[1] + 4 /\ c[2] <= j + 1}

Rightmost(i, j) ==
    {c \in Cells : c[1] >= i /\ c[1] <= j - 4 /\ c[2] >= c[1] + 4 /\ c[2] <= j}

\* The pairs (d,e) inside the pair (i,j): the Qb and Pb recursions.
Inside(i, j) ==
    {c \in Cells : c[1] >= i + 1 /\ c[1] <= j - 5 /\ c[2] >= c[1] + 4 /\ c[2] <= j - 1}

\* A read of cell c of matrix M, named m, by iteration <<l, i>>: the cell and who
\* wrote what is read (the iteration itself for its own cell <<i, j>>).
Rd(m, M, c, l, i) ==
    [m |-> m, c |-> c, w |-> IF c = <<i, i + l - 1>> THEN <<l, i>> ELSE M[c].w]

Wr(m, c) == [m |-> m, c |-> c]

\* The cells iteration (l,i) of compute_partition_function_noPK_ON4 reads.
ON4_Reads(l, i) ==
    LET j == i + l - 1
        inner == IF l >= 7 THEN Inside(i, j) ELSE {}
    IN  {Rd("Qb", Qb, c, l, i) : c \in inner \cup Rightmost(i, j)}
        \cup {Rd("Qm", Qm, <<i + 1, c[1] - 1>>, l, i) : c \in {x \in inner : x[1] - i >= 2}}
        \cup {Rd("Qm", Qm, <<i, c[1] - 1>>, l, i) : c \in {x \in Rightmost(i, j) : x[1] > i}}
        \cup {Rd("Q", Q, <<i, c[1] - 1>>, l, i) : c \in {x \in Rightmost(i, j) : x[1] > i}}
        \cup {[m |-> "Qm", c |-> <<i, j>>, w |-> Qm[<<i, j>>].w]}

ON4_iteration ==
    /\ loop.fn = "ON4"
    /\ \E i \in Schedulable(loop.l, loop.ran) :
          LET l     == loop.l
              j     == i + l - 1
              inner == IF l >= 7 THEN Inside(i, j) ELSE {}
              right == Rightmost(i, j) \ {<<i, j>>}
              qb    == AddAll({GHL(i, j)}
                         \cup {Mul(Qb[c].v, GIL(i, c[1], c[2], j)) : c \in inner}
                         \cup {Mul(Qb[c].v, Qm[<<i + 1, c[1] - 1>>].v)
                                  : c \in {x \in inner : x[1] - i >= 2}})
              qm    == AddAll({Qm[<<i, j>>].v}
                         \cup {Qb[c].v : c \in right}
                         \cup {Mul(Qb[c].v, Qm[<<i, c[1] - 1>>].v)
                                  : c \in {x \in right : x[1] > i}})
              q     == AddAll({1}
                         \cup {IF c[1] > i THEN Mul(Q[<<i, c[1] - 1>>].v, Qb[c].v)
                                           ELSE Qb[c].v : c \in right})
          IN  /\ Qb' = [Qb EXCEPT ![<<i, j>>] =
                           [v |-> qb, w |-> <<l, i>>, t |-> GILTerms(i, j, inner)]]
              /\ Qm' = [Qm EXCEPT ![<<i, j>>] =
                           [v |-> AddAll({qm, Qb'[<<i, j>>].v}), w |-> <<l, i>>]]
              /\ Q'  = [Q EXCEPT ![<<i, j>>] =
                           [v |-> AddAll({q, Qb'[<<i, j>>].v}), w |-> <<l, i>>]]
              /\ accesses' = (i :> [reads  |-> ON4_Reads(l, i),
                                    writes |-> {Wr("Qb", <<i, j>>), Wr("Qm", <<i, j>>),
                                                Wr("Q", <<i, j>>)}]) @@ accesses
              /\ loop' = [loop EXCEPT !.ran = @ \cup {i}]
    /\ UNCHANGED <<seq_, fast, uninit_, Qs, Qms, Qx, Qx1, Qx2, P, Pb, Pm, snap>>
    /\ UNCHANGED <<moip_vars, motif_vars, parser_vars, energy_vars>>

\* The end of the parallel loop at length l: the next l, or the return.
ON4_next ==
    /\ loop.fn = "ON4"
    /\ loop.ran = Iterations(loop.l)
    /\ loop' = IF loop.l < n_ THEN [loop EXCEPT !.l = @ + 1, !.ran = {}]
               ELSE [loop EXCEPT !.fn = "returned", !.ran = {}]
    /\ accesses' = <<>>
    /\ UNCHANGED <<seq_, fast, uninit_, Q, Qb, Qm, Qs, Qms, Qx, Qx1, Qx2, P, Pb, Pm, snap>>
    /\ UNCHANGED <<moip_vars, motif_vars, parser_vars, energy_vars>>

\* ------------------------------------------------ class RNA: the O(N^3) algorithm
\* The weight exp(-GIL_mismatch(i,j,k,l)/RT), an entry of mismatch_interior37
\* for the pair type of (i,j).
GIL_mismatch(i, j) == Entry({pair_type(i, j)})

\* The pairs (d,e) iteration (l,i) adds to the slab Qx(i, .): those with L1 = 4,
\* L2 >= 4 and those with L2 = 4, L1 > 4.
QxPairs(l, i) ==
    LET j == i + l - 1
    IN  IF l >= 15
        THEN {<<i + 5, e>> : e \in (i + 9)..(j - 5)} \cup {<<d, j - 5>> : d \in (i + 6)..(j - 9)}
        ELSE {}

\* L1 + L2 of the loop between (i,j) and the pair c = (d,e).
LoopSize(i, j, c) == (c[1] - i - 1) + (j - c[2] - 1)

\* The term of Qb(d,e) * exp(-(GIL_asymmetry(L1,L2) + GIL_mismatch(d,e,d+1,e-1))/RT).
QxTerm(i, j, c) ==
    LET L1 == c[1] - i - 1
        L2 == j - c[2] - 1
    IN  [d |-> c[1], e |-> c[2],
         E |-> {<<"Gloop", L1 + L2, 0, 0, 0>>,
                <<"asymmetry", IF L1 > L2 THEN L1 - L2 ELSE L2 - L1,
                  Min2(4, Min2(L1, L2)), 0, 0>>,
                <<"mismatch", c[1], c[2], c[1] + 1, c[2] - 1>>}]

\* Row i of Qx after the "Qx definition" of iteration (l,i), as s -> cell.
QxRow(l, i) ==
    LET j == i + l - 1
    IN  [s \in 0..(n_ - 1) |->
            LET new == {c \in QxPairs(l, i) : LoopSize(i, j, c) = s}
            IN  IF new = {} THEN Qx[<<i, s>>]
                ELSE [v |-> AddAll({Qx[<<i, s>>].v}
                                   \cup {Mul(Qb[c].v, GIL_mismatch(c[1], c[2])) : c \in new}),
                      w |-> <<l, i>>,
                      t |-> Qx[<<i, s>>].t (+) SetToBag({QxTerm(i, j, c) : c \in new})]]

\* A term of Qx(i,s) times exp(-(Gloop(s + 2) - Gloop(s))/RT).
Extend(term, s) ==
    [term EXCEPT !.E = (@ \ {<<"Gloop", s, 0, 0, 0>>}) \cup {<<"Gloop", s + 2, 0, 0, 0>>}]

\* A term of Qx(i,s) times exp(-GIL_mismatch(i,j,i+1,j-1)/RT).
Convert(term, i, j) ==
    [term EXCEPT !.E = @ \cup {<<"mismatch", i, j, i + 1, j - 1>>}]

\* The pairs (d,e) added to Qb(i,j) as special cases: the small loops, those
\* with L1 <= 3 and L2 >= 4, and those with L2 <= 3 and L1 >= 4.
SmallPairs(i, j) ==
    {c \in Cells : c[1] >= i + 1 /\ c[1] <= i + 4
                   /\ c[2] >= c[1] + 4 /\ c[2] >= j - 4 /\ c[2] <= j - 1}

LeftPairs(i, j) ==
    {c \in Cells : c[1] >= i + 1 /\ c[1] <= i + 4 /\ c[2] >= c[1] + 4 /\ c[2] <= j - 5}

RightPairs(i, j) ==
    {c \in Cells : c[2] >= j - 4 /\ c[2] <= j - 1 /\ c[1] >= i + 5 /\ c[1] <= c[2] - 4}

RECURSIVE Converted(_, _, _, _, _)
\* The terms of Qx(i,s), ..., Qx(i,hi) converted to terms of Qb(i,j).
Converted(row, i, j, s, hi) ==
    IF s > hi THEN EmptyBag
    ELSE BagOfAll(LAMBDA term : Convert(term, i, j), row[s].t)
         (+) Converted(row, i, j, s + 1, hi)

\* The cells iteration (l,i) of compute_partition_function_noPK_ON3 reads.
ON3_Reads(l, i) ==
    LET j       == i + l - 1
        touched == {LoopSize(i, j, c) : c \in QxPairs(l, i)}
        multi   == (i + 6)..(j - 5)
        rest    == (i + 1)..(j - 4)
    IN  {Rd("Qb", Qb, c, l, i) : c \in QxPairs(l, i) \cup SmallPairs(i, j)
                                       \cup LeftPairs(i, j) \cup RightPairs(i, j)
                                       \cup {<<i, d>> : d \in (i + 4)..j}}
        \cup {[m |-> "Qx", c |-> <<i, s>>, w |-> Qx[<<i, s>>].w] : s \in touched}
        \cup {[m |-> "Qx", c |-> <<i, s>>,
               w |-> IF s \in touched THEN <<l, i>> ELSE Qx[<<i, s>>].w] : s \in 8..(l - 7)}
        \cup {Rd("Qm", Qm, <<i + 1, d - 1>>, l, i) : d \in multi}
        \cup {Rd("Qms", Qms, <<d, j - 1>>, l, i) : d \in multi}
        \cup {[m |-> "Qs", c |-> <<i, j>>, w |-> Qs[<<i, j>>].w],
              [m |-> "Qms", c |-> <<i, j>>, w |-> Qms[<<i, j>>].w],
              [m |-> "Qm", c |-> <<i, j>>, w |-> Qm[<<i, j>>].w]}
        \cup {Rd("Qms", Qms, <<d, j>>, l, i) : d \in i..(j - 4)}
        \cup {Rd("Qs", Qs, <<d, j>>, l, i) : d \in i..(j - 4)}
        \cup {Rd("Qm", Qm, <<i, d - 1>>, l, i) : d \in rest}
        \cup {Rd("Q", Q, <<i, d - 1>>, l, i) : d \in rest}

ON3_Writes(l, i) ==
    LET j == i + l - 1
    IN  {Wr("Qx", <<i, LoopSize(i, j, c)>>) : c \in QxPairs(l, i)}
        \cup (IF l >= 15 /\ i > 0 THEN {Wr("Qx2", <<i - 1, s + 2>>) : s \in 8..(l - 7)} ELSE {})
        \cup {Wr("Qb", <<i, j>>), Wr("Qs", <<i, j>>), Wr("Qms", <<i, j>>),
              Wr("Qm", <<i, j>>), Wr("Q", <<i, j>>)}

ON3_iteration ==
    /\ loop.fn = "ON3"
    /\ \E i \in Schedulable(loop.l, loop.ran) :
       \E row \in {QxRow(loop.l, i)} :
          LET l     == loop.l
              j     == i + l - 1
              slabs == 8..(l - 7)
              multi == (i + 6)..(j - 5)
              rest  == (i + 1)..(j - 4)
              special == SmallPairs(i, j) \cup LeftPairs(i, j) \cup RightPairs(i, j)
              qb    == AddAll({GHL(i, j)}
                         \cup {Mul(row[s].v, GIL_mismatch(i, j)) : s \in slabs}
                         \cup {Mul(Qb[c].v, GIL(i, c[1], c[2], j)) : c \in special}
                         \cup {Mul(Qm[<<i + 1, d - 1>>].v, Qms[<<d, j - 1>>].v) : d \in multi})
              terms == GILTerms(i, j, SmallPairs(i, j)) (+) GILTerms(i, j, LeftPairs(i, j))
                       (+) GILTerms(i, j, RightPairs(i, j))
                       (+) Converted(row, i, j, 8, l - 7)
          IN  /\ Qx' = [c \in Cells |-> IF c[1] = i THEN row[c[2]] ELSE Qx[c]]
              /\ Qx2' = [c \in Cells |->
                           IF l >= 15 /\ i > 0 /\ c[1] = i - 1 /\ c[2] - 2 \in slabs
                           THEN [v |-> row[c[2] - 2].v, w |-> <<l, i>>,
                                 t |-> BagOfAll(LAMBDA term : Extend(term, c[2] - 2),
                                                row[c[2] - 2].t)]
                           ELSE Qx2[c]]
              /\ Qb' = [Qb EXCEPT ![<<i, j>>] = [v |-> qb, w |-> <<l, i>>, t |-> terms]]
              /\ Qs' = [Qs EXCEPT ![<<i, j>>] =
                           [v |-> AddAll({Qs[<<i, j>>].v, Qb'[<<i, j>>].v}
                                         \cup {Qb[<<i, d>>].v : d \in (i + 4)..(j - 1)}),
                            w |-> <<l, i>>]]
              /\ Qms' = [Qms EXCEPT ![<<i, j>>] =
                           [v |-> AddAll({Qms[<<i, j>>].v, Qb'[<<i, j>>].v}
                                         \cup {Qb[<<i, d>>].v : d \in (i + 4)..(j - 1)}),
                            w |-> <<l, i>>]]
              /\ Qm' = [Qm EXCEPT ![<<i, j>>] =
                           [v |-> AddAll({Qm[<<i, j>>].v, Qms'[<<i, j>>].v}
                                         \cup {Qms[<<d, j>>].v : d \in rest}
                                         \cup {Mul(Qms[<<d, j>>].v, Qm[<<i, d - 1>>].v)
                                                  : d \in rest}),
                            w |-> <<l, i>>]]
              /\ Q' = [Q EXCEPT ![<<i, j>>] =
                           [v |-> AddAll({1, Qs'[<<i, j>>].v}
                                         \cup {Mul(Q[<<i, d - 1>>].v, Qs[<<d, j>>].v)
                                                  : d \in rest}),
                            w |-> <<l, i>>]]
              /\ accesses' = (i :> [reads |-> ON3_Reads(l, i), writes |-> ON3_Writes(l, i)])
                             @@ accesses
              /\ loop' = [loop EXCEPT !.ran = @ \cup {i}]
    /\ UNCHANGED <<seq_, fast, uninit_, Qx1, P, Pb, Pm, snap>>
    /\ UNCHANGED <<moip_vars, motif_vars, parser_vars, energy_vars>>

\* The end of the parallel loop at length l: the return, or the next l, which
\* begins with Qx = Qx1, Qx1 = Qx2, Qx2.setZero().
ON3_next ==
    /\ loop.fn = "ON3"
    /\ loop.ran = Iterations(loop.l)
    /\ IF loop.l < n_
       THEN /\ loop' = [loop EXCEPT !.l = @ + 1, !.ran = {}]
            /\ Qx' = Qx1
            /\ Qx1' = Qx2
            /\ Qx2' = setZero(loop.l + 1)
       ELSE /\ loop' = [loop EXCEPT !.fn = "returned", !.ran = {}]
            /\ UNCHANGED <<Qx, Qx1, Qx2>>
    /\ accesses' = <<>>
    /\ UNCHANGED <<seq_, fast, uninit_, Q, Qb, Qm, Qs, Qms, P, Pb, Pm, snap>>
    /\ UNCHANGED <<moip_vars, motif_vars, parser_vars, energy_vars>>

\* ------------------------------------------------ class RNA: posterior
\* compute_posterior_noPK_ON4 after its call of the partition function: the
\* matrices P, Pb, Pm and P(0, n_ - 1) = 1.
posterior_start ==
    /\ loop.fn = "returned"
    /\ P' = [Zero EXCEPT ![<<0, n_ - 1>>] = [v |-> 1, w |-> <<0, 0>>]]
    /\ Pb' = Zero
    /\ Pm' = Zero
    /\ snap' = [Pb |-> Zero, Pm |-> Zero]
    /\ loop' = [fn |-> "posterior", l |-> n_, ran |-> {}]
    /\ accesses' = <<>>
    /\ UNCHANGED <<seq_, fast, uninit_, Q, Qb, Qm, Qs, Qms, Qx, Qx1, Qx2>>
    /\ UNCHANGED <<moip_vars, motif_vars, parser_vars, energy_vars>>

\* The cells iteration (l,i) of the loop of the posterior reads (the operands of
\* its expressions) and updates (the targets of its +=).
posterior_Reads(l, i) ==
    LET j     == i + l - 1
        right == Rightmost(i, j)
        inner == Inside(i, j)
    IN  (IF right = {} THEN {}
         ELSE {Wr("P", <<i, j>>), Wr("Pm", <<i, j>>), Wr("Q", <<i, j>>), Wr("Qm", <<i, j>>)})
        \cup {Wr("Qb", c) : c \in right \cup inner}
        \cup {Wr("Q", <<i, c[1] - 1>>) : c \in {x \in right : x[1] > i}}
        \cup {Wr("Qm", <<i, c[1] - 1>>) : c \in {x \in right : x[1] > i}}
        \cup (IF inner = {} THEN {} ELSE {Wr("Qb", <<i, j>>)})
        \cup (IF inner # {} /\ Qb[<<i, j>>].v = 1
              THEN {Wr("Pb", <<i, j>>)} \cup {Wr("Qm", <<i + 1, c[1] - 1>>) : c \in inner}
              ELSE {})

posterior_Writes(l, i) ==
    LET j     == i + l - 1
        right == Rightmost(i, j)
        inner == Inside(i, j)
    IN  {Wr("Pb", c) : c \in right}
        \cup {Wr("P", <<i, c[1] - 1>>) : c \in {x \in right : x[1] > i}}
        \cup {Wr("Pm", <<i, c[1] - 1>>) : c \in {x \in right : x[1] > i}}
        \cup (IF Qb[<<i, j>>].v = 1
              THEN {Wr("Pb", c) : c \in inner}
                   \cup {Wr("Pm", <<i + 1, c[1] - 1>>) : c \in inner}
              ELSE {})

\* The cells that the iterations of this l run by other threads than the one
\* of i have updated so far.
OthersWrites(i) ==
    UNION {accesses[k].writes
              : k \in {x \in DOMAIN accesses : Thread(loop.l, x) # Thread(loop.l, i)}}

\* One iteration of the parallel loop. The += of two iterations on one cell are
\* not synchronised: an iteration either adds to the value the cell has now, or
\* (lost) to the value it had when the loop began, which erases what the others
\* added.
posterior_iteration ==
    /\ loop.fn = "posterior"
    /\ \E i \in Schedulable(loop.l, loop.ran), lost \in BOOLEAN :
       \E right \in {Rightmost(i, i + loop.l - 1)}, inner \in {Inside(i, i + loop.l - 1)},
          W \in {posterior_Writes(loop.l, i)},
          racy \in {IF lost THEN OthersWrites(i) ELSE {}} :
          LET l     == loop.l
              j     == i + l - 1
              pb0(c) == IF Wr("Pb", c) \in racy THEN snap.Pb[c].v ELSE Pb[c].v
              pm0(c) == IF Wr("Pm", c) \in racy THEN snap.Pm[c].v ELSE Pm[c].v
              pij   == P[<<i, j>>].v
              pmij  == Pm[<<i, j>>].v
              qij   == Q[<<i, j>>].v
              qmij  == Qm[<<i, j>>].v
              qbij  == Qb[<<i, j>>].v
              \* P, Pm recursion
              dP1(c) == IF c[1] > i
                        THEN Div(Mul(Mul(pij, Q[<<i, c[1] - 1>>].v), Qb[c].v), qij)
                        ELSE Div(Mul(pij, Qb[c].v), qij)
              dPb(c) == Div(Mul(pmij, Qb[c].v), qmij)
              dP2(c) == IF c[1] > i
                        THEN Div(Mul(Mul(pmij, Qm[<<i, c[1] - 1>>].v), Qb[c].v), qmij)
                        ELSE Div(Mul(pmij, Qb[c].v), qmij)
              first(c) == IF c \in right THEN {dP1(c), dPb(c), dP2(c)} ELSE {}
          IN  \E pbij \in {AddAll({pb0(<<i, j>>)} \cup first(<<i, j>>))} :
              LET \* Pb recursion
                  dP3(c) == Div(Mul(Mul(pbij, Qb[c].v), GIL(i, c[1], c[2], j)), qbij)
                  dP4(c) == Div(Mul(Mul(pbij, Qm[<<i + 1, c[1] - 1>>].v), Qb[c].v), qbij)
                  second(c) == IF c \in inner /\ qbij = 1 THEN {dP3(c), dP4(c)} ELSE {}
                  toP(c)  == {dP1(x) : x \in {z \in right : z[1] > i /\ <<i, z[1] - 1>> = c}}
                  toPm(c) == {dP2(x) : x \in {z \in right : z[1] > i /\ <<i, z[1] - 1>> = c}}
                             \cup {dP4(x) : x \in {z \in inner : qbij = 1
                                                                /\ <<i + 1, z[1] - 1>> = c}}
              IN  /\ P' = [c \in Cells |->
                             IF Wr("P", c) \in W
                             THEN [v |-> AddAll({P[c].v} \cup toP(c)), w |-> <<l, i>>]
                             ELSE P[c]]
                  /\ Pb' = [c \in Cells |->
                             IF Wr("Pb", c) \in W
                             THEN [v |-> AddAll({pb0(c)} \cup first(c) \cup second(c)),
                                   w |-> <<l, i>>]
                             ELSE Pb[c]]
                  /\ Pm' = [c \in Cells |->
                             IF Wr("Pm", c) \in W
                             THEN [v |-> AddAll({pm0(c)} \cup toPm(c)), w |-> <<l, i>>]
                             ELSE Pm[c]]
                  /\ accesses' = (i :> [reads |-> posterior_Reads(l, i), writes |-> W])
                                 @@ accesses
                  /\ loop' = [loop EXCEPT !.ran = @ \cup {i}]
    /\ UNCHANGED <<seq_, fast, uninit_, Q, Qb, Qm, Qs, Qms, Qx, Qx1, Qx2, snap>>
    /\ UNCHANGED <<moip_vars, motif_vars, parser_vars, energy_vars>>

\* The end of the parallel loop at length l: the next smaller l, or return Pb.
\* The iterations at l < 5 have no pair (d,e) with d + 4 <= e <= j: they read
\* and write nothing, and the model goes from l = 5 to the return.
posterior_next ==
    /\ loop.fn = "posterior"
    /\ loop.ran = Iterations(loop.l)
    /\ loop' = IF loop.l > 5 THEN [loop EXCEPT !.l = @ - 1, !.ran = {}]
               ELSE [loop EXCEPT !.fn = "done", !.ran = {}]
    /\ snap' = [Pb |-> Pb, Pm |-> Pm]
    /\ accesses' = <<>>
    /\ UNCHANGED <<seq_, fast, uninit_, Q, Qb, Qm, Qs, Qms, Qx, Qx1, Qx2, P, Pb, Pm>>
    /\ UNCHANGED <<moip_vars, motif_vars, parser_vars, energy_vars>>

\* ------------------------------------------------ class RNA: the runs
Bases == {"A", "C", "G", "U"}

\* Sequences of MinLen to MaxLen nucleotides: all those of A and U, and those
\* of MinLen nucleotides that are one C or G followed by A and U.
MinLen == 5

MaxLen == 7

Sequences ==
    UNION {[1..k -> {"A", "U"}] : k \in MinLen..MaxLen}
    \cup {<<b>> \o t : b \in {"C", "G"}, t \in [1..(MinLen - 1) -> {"A", "U"}]}

\* The constructor of RNA calls compute_posterior_noPK_ON4, which calls one of
\* the two partition functions; the run begins at the first length, 5, of their
\* outer loop.
InitPosterior ==
    /\ seq_ \in Sequences
    /\ fast \in BOOLEAN
    /\ uninit_ \in {0, 1}
    /\ loop = [fn |-> IF fast THEN "ON3" ELSE "ON4", l |-> 5, ran |-> {}]
    /\ Q = QShort /\ Qb = ZeroT /\ Qm = Zero
    /\ Qs = Zero /\ Qms = Zero /\ Qx = ZeroT /\ Qx1 = ZeroT /\ Qx2 = setZero(5)
    /\ P = <<>> /\ Pb = <<>> /\ Pm = <<>>
    /\ snap = <<>>
    /\ accesses = <<>>
    /\ rna_ = [n |-> 0, pij |-> <<>>]
    /\ theta_ = 0
    /\ insertion_sites_ = <<>>
    /\ index_of_yuv_ = <<>>
    /\ basepair_dv_ = 0
    /\ index_of_Cxip_ = <<>>
    /\ index_of_first_components = <<>>
    /\ insertion_dv_ = 0
    /\ model_ = <<>>
    /\ obj1 = <<>>
    /\ obj2 = <<>>
    /\ cplex_ = [errors |-> FALSE, status |-> "Unknown"]
    /\ feasible_ = {}
    /\ pareto_ = <<>>
    /\ frame = [pc |-> "none", lambdaMin |-> <<>>]
    /\ solved = <<>>
    /\ delivered = <<>>
    /\ FinderIdle
    /\ ParsersIdle
    /\ EnergyIdle

NextPartition == ON4_iteration \/ ON4_next \/ ON3_iteration \/ ON3_next

NextPosterior ==
    NextPartition \/ posterior_start \/ posterior_iteration \/ posterior_next

SpecPosterior == InitPosterior /\ [][NextPosterior]_vars

\* Calls of the two partition functions on sequences long enough for the slabs
\* Qx of the O(N^3) algorithm to be filled (l >= 15) and extended (l >= 17):
\* sequences of LongLen nucleotides that repeat two of A and U.
LongLen == 17

LongSequences ==
    {[k \in 1..LongLen |-> IF k % 2 = 1 THEN a ELSE b] : a \in {"A", "U"}, b \in {"A", "U"}}

InitPartition ==
    /\ seq_ \in LongSequences
    /\ fast \in BOOLEAN
    /\ uninit_ \in {0, 1}
    /\ loop = [fn |-> IF fast THEN "ON3" ELSE "ON4", l |-> 5, ran |-> {}]
    /\ Q = QShort /\ Qb = ZeroT /\ Qm = Zero
    /\ Qs = Zero /\ Qms = Zero /\ Qx = ZeroT /\ Qx1 = ZeroT /\ Qx2 = setZero(5)
    /\ P = <<>> /\ Pb = <<>> /\ Pm = <<>>
    /\ snap = <<>>
    /\ accesses = <<>>
    /\ rna_ = [n |-> 0, pij |-> <<>>]
    /\ theta_ = 0
    /\ insertion_sites_ = <<>>
    /\ index_of_yuv_ = <<>>
    /\ basepair_dv_ = 0
    /\ index_of_Cxip_ = <<>>
    /\ index_of_first_components = <<>>
    /\ insertion_dv_ = 0
    /\ model_ = <<>>
    /\ obj1 = <<>>
    /\ obj2 = <<>>
    /\ cplex_ = [errors |-> FALSE, status |-> "Unknown"]
    /\ feasible_ = {}
    /\ pareto_ = <<>>
    /\ frame = [pc |-> "none", lambdaMin |-> <<>>]
    /\ solved = <<>>
    /\ delivered = <<>>
    /\ FinderIdle
    /\ ParsersIdle
    /\ EnergyIdle

SpecPartition == InitPartition /\ [][NextPartition]_vars

\* C16: in compute_posterior_noPK_ON4 the iterations i of one length l are
\* independent: no two of them update the same cell of P, Pb or Pm, and none
\* reads a cell that another one writes.
C16_IndependentIterations ==
    loop.fn = "posterior" =>
        \A i1, i2 \in DOMAIN accesses :
            i1 # i2 => /\ accesses[i1].writes \cap accesses[i2].writes = {}
                       /\ accesses[i1].reads \cap accesses[i2].writes = {}

\* C17: in both partition functions an iteration (l,i) reads only cells written
\* at a length smaller than l (or before the loops) or by itself, and two
\* iterations of the same l write disjoint cells of Q, Qb, Qm, Qs, Qms, Qx, Qx2.
C17_ReadsShorterWritesDisjoint ==
    loop.fn \in {"ON4", "ON3"} =>
        \A i \in DOMAIN accesses :
            /\ \A r \in accesses[i].reads : r.w[1] < loop.l \/ r.w = <<loop.l, i>>
            /\ \A k \in DOMAIN accesses \ {i} :
                  /\ accesses[i].writes \cap accesses[k].writes = {}
                  /\ {Wr(r.m, r.c) : r \in accesses[i].reads} \cap accesses[k].writes = {}

\* An iteration of the O(N^3) algorithm has read a cell of Qx that iteration
\* i + 1 of length l - 2 wrote (as a cell of Qx2).
C17_Witness ==
    /\ loop.fn = "ON3"
    /\ \E i \in DOMAIN accesses :
          \E r \in accesses[i].reads : r.m = "Qx" /\ r.w = <<loop.l - 2, i + 1>>

\* C18: the matrix compute_posterior_noPK_ON4 returns has p(i,j) = 0 whenever
\* |i - j| < 4 and whenever (seq[i], seq[j]) is not one of AU, UA, CG, GC, GU, UG.
C18_ZeroPattern ==
    loop.fn = "done" =>
        \A c \in Cells :
            (c[1] - c[2] \in -3..3 \/ pair_type(c[1], c[2]) = PAIR_OTHER) => Pb[c].v = 0

\* C19: the O(N^3) algorithm sums into Qb(i,j) the same interior-loop terms as
\* the O(N^4) algorithm: every pair (d,e) inside (i,j) exactly once, with the
\* summands of GIL(i,d,e,j).
C19_SameInteriorTerms ==
    fast /\ loop.fn \in {"ON3", "returned"} =>
        \A c \in Cells :
            Qb[c].w[1] >= 5 => Qb[c].t = GILTerms(c[1], c[2], Inside(c[1], c[2]))

\* ------------------------------------------------ find_next_ones_in
\* The regex of a component: nucleotides and ".", which stands for any one
\* nucleotide. It matches the string rna at position p (from 0) when:
MatchesAt(rna, c, p) ==
    /\ p + Len(c) <= Len(rna)
    /\ \A k \in 1..Len(c) : c[k] = "." \/ rna[p + k] = c[k]

RECURSIVE sregex_iterator(_, _, _)
\* The positions sregex_iterator(rna.begin(), rna.end(), c) goes through: the
\* leftmost match at or after from, then the search resumes where it ends.
sregex_iterator(rna, c, from) ==
    LET found == {p \in from..(Len(rna) - Len(c)) : MatchesAt(rna, c, p)}
    IN  IF found = {} THEN <<>>
        ELSE LET p == CHOOSE q \in found : \A x \in found : q <= x
             IN  <<p>> \o sregex_iterator(rna, c, p + Len(c))

RECURSIVE find_next_ones_in(_, _, _)
\* find_next_ones_in recursing with the end of the match in the coordinates of
\* the suffix it was given, the offset of that suffix left out.
find_next_ones_in_SuffixCoordinates(rna, offset, vc) ==
    LET c          == vc[1]
        match      == sregex_iterator(rna, c, 0)
        first(k)   == match[k] + offset
        second(k)  == first(k) + Len(c) - 1
        next_seqs  == Tail(vc)
        combine(k) ==
            IF second(k) - offset + 5 >= Len(rna) THEN <<>>
            ELSE LET next_ones == find_next_ones_in(
                                      SubSeq(rna, second(k) - offset + 5 + 1, Len(rna)),
                                      second(k) - offset + 5, next_seqs)
                 IN  [x \in 1..Len(next_ones) |->
                         <<Component(first(k), second(k))>> \o next_ones[x]]
    IN  IF Len(vc) > 1
        THEN FlattenSeq([k \in 1..Len(match) |-> combine(k)])
        ELSE [k \in 1..Len(match) |-> <<Component(first(k), second(k))>>]

find_next_ones_in(rna, offset, vc) ==
    LET c          == vc[1]
        match      == sregex_iterator(rna, c, 0)
        first(k)   == match[k] + offset
        second(k)  == first(k) + Len(c) - 1
        next_seqs  == Tail(vc)
        \* what the body of the loop appends to results for match k
        combine(k) ==
            IF second(k) - offset + 5 >= Len(rna) THEN <<>>
            ELSE LET next_ones == find_next_ones_in(
                                      SubSeq(rna, second(k) - offset + 5 + 1, Len(rna)),
                                      second(k) + 5, next_seqs)
                 IN  [x \in 1..Len(next_ones) |->
                         <<Component(first(k), second(k))>> \o next_ones[x]]
    IN  IF Len(vc) > 1
        THEN FlattenSeq([k \in 1..Len(match) |-> combine(k)])
        ELSE [k \in 1..Len(match) |-> <<Component(first(k), second(k))>>]

\* The call find_next_ones_in(rna, 0, vc).
find_call ==
    /\ finder.pc = "call"
    /\ finder' = [finder EXCEPT !.pc = "done",
                                !.results = find_next_ones_in(finder.rna, 0, finder.vc)]
    /\ UNCHANGED <<moip_vars, rna_vars, parser_vars, energy_vars>>

\* Sequences of RnaLen nucleotides A and U, and one or two components among
\* the regexes A, AA, A.A and U.
RnaLen == 8

Regexes == {<<"A">>, <<"A", "A">>, <<"A", ".", "A">>, <<"U">>}

InitFinder ==
    /\ finder \in [rna : [1..RnaLen -> {"A", "U"}],
                   vc  : {<<r>> : r \in Regexes} \cup (Regexes \X Regexes),
                   pc  : {"call"},
                   results : {<<>>}]
    /\ ParsersIdle
    /\ EnergyIdle
    /\ RNAIdle
    /\ rna_ = [n |-> 0, pij |-> <<>>]
    /\ theta_ = 0
    /\ insertion_sites_ = <<>>
    /\ index_of_yuv_ = <<>>
    /\ basepair_dv_ = 0
    /\ index_of_Cxip_ = <<>>
    /\ index_of_first_components = <<>>
    /\ insertion_dv_ = 0
    /\ model_ = <<>>
    /\ obj1 = <<>>
    /\ obj2 = <<>>
    /\ cplex_ = [errors |-> FALSE, status |-> "Unknown"]
    /\ feasible_ = {}
    /\ pareto_ = <<>>
    /\ frame = [pc |-> "none", lambdaMin |-> <<>>]
    /\ solved = <<>>
    /\ delivered = <<>>

SpecFinder == InitFinder /\ [][find_call]_vars

\* The occurrences of the regex c on rna, as components.
Occurrences(rna, c) ==
    {Component(p, p + Len(c) - 1) : p \in {q \in 0..(Len(rna) - Len(c)) : MatchesAt(rna, c, q)}}

\* The tuples of occurrences, one of each regex of vc in order, each beginning
\* at least 5 positions after the end of the one before.
AllTuples(rna, vc) ==
    {t \in [1..Len(vc) -> UNION {Occurrences(rna, vc[k]) : k \in 1..Len(vc)}] :
        /\ \A k \in 1..Len(vc) : t[k] \in Occurrences(rna, vc[k])
        /\ \A k \in 1..(Len(vc) - 1) : t[k + 1].first >= t[k].second + 5}

\* C20: find_next_ones_in(rna, 0, vc) returns every tuple of occurrences of the
\* regexes in order in which each occurrence begins at least 5 positions after
\* the end of the one before; none is missing.
C20_NoTupleMissing ==
    finder.pc = "done" => AllTuples(finder.rna, finder.vc) \subseteq
        {finder.results[x] : x \in DOMAIN finder.results}

\* The variables of the other parts of the program while a motif is searched.
MOIPIdle ==
    /\ rna_ = [n |-> 0, pij |-> <<>>]
    /\ theta_ = 0
    /\ insertion_sites_ = <<>>
    /\ index_of_yuv_ = <<>>
    /\ basepair_dv_ = 0
    /\ index_of_Cxip_ = <<>>
    /\ index_of_first_components = <<>>
    /\ insertion_dv_ = 0
    /\ model_ = <<>>
    /\ obj1 = <<>>
    /\ obj2 = <<>>
    /\ cplex_ = [errors |-> FALSE, status |-> "Unknown"]
    /\ feasible_ = {}
    /\ pareto_ = <<>>
    /\ frame = [pc |-> "none", lambdaMin |-> <<>>]
    /\ solved = <<>>
    /\ delivered = <<>>

\* Sequences long enough for three components 5 positions apart (at least
\* 1 + 5 + 1 + 5 + 1 nucleotides), and one to three components among A and AA.
DeepLen == 13

InitFinderDeep ==
    /\ LET regexes == {<<"A">>, <<"A", "A">>}
       IN  finder \in [rna : [1..DeepLen -> {"A", "U"}],
                       vc  : {<<r>> : r \in regexes}
                                 \cup (regexes \X regexes)
                                 \cup (regexes \X regexes \X regexes),
                       pc  : {"call"},
                       results : {<<>>}]
    /\ ParsersIdle
    /\ EnergyIdle
    /\ RNAIdle
    /\ MOIPIdle

SpecFinderDeep == InitFinderDeep /\ [][find_call]_vars

\* C21: every tuple returned by find_next_ones_in(rna, 0, vc) has one component
\* for each regex of vc, in order; each component lies on the RNA in its absolute
\* coordinates (0 <= start <= end < n), the RNA matches its regex there, and
\* each component begins at least 5 positions after the end of the one before.
C21_TuplesWellPlaced ==
    finder.pc = "done" =>
        \A x \in DOMAIN finder.results :
            LET t == finder.results[x]
            IN  /\ Len(t) = Len(finder.vc)
                /\ \A k \in 1..Len(t) :
                      /\ 0 <= t[k].first
                      /\ t[k].first <= t[k].second
                      /\ t[k].second < Len(finder.rna)
                      /\ t[k].second - t[k].first + 1 = Len(finder.vc[k])
                      /\ MatchesAt(finder.rna, finder.vc[k], t[k].first)
                /\ \A k \in 1..(Len(t) - 1) : t[k + 1].first >= t[k].second + 5

\* A tuple of three components whose first does not begin the RNA: the second
\* recursion was given a suffix of a suffix.
C21_Witness ==
    /\ finder.pc = "done"
    /\ Len(finder.vc) = 3
    /\ \E x \in DOMAIN finder.results :
          /\ Len(finder.results[x]) = 3
          /\ finder.results[x][1].first > 0
          /\ finder.results[x][3].first > finder.results[x][2].second + 5

\* ------------------------------------------------ Motif(csv_line)
\* A string is the sequence of its characters.
Digits == <<"0", "1", "2", "3", "4", "5", "6", "7", "8", "9">>

IsDigit(ch) == \E d \in 1..10 : Digits[d] = ch

DigitValue(ch) == (CHOOSE d \in 1..10 : Digits[d] = ch) - 1

\* How a file writes a number below 100.
to_string(n) ==
    IF n < 10 THEN <<Digits[n + 1]>>
    ELSE <<Digits[(n \div 10) + 1], Digits[(n % 10) + 1]>>

RECURSIVE stoi(_)
\* std::stoi: the value of the digits the string begins with.
stoi(str) ==
    LET digits == CHOOSE k \in 0..Len(str) :
                      /\ \A x \in 1..k : IsDigit(str[x])
                      /\ k = Len(str) \/ ~IsDigit(str[k + 1])
    IN  IF digits = 0 THEN 0
        ELSE 10 * stoi(SubSeq(str, 1, digits - 1)) + DigitValue(str[digits])

RECURSIVE split(_, _)
\* boost::split(tokens, line, is_any_of(sep)): every separator ends a token,
\* empty tokens are kept.
split(line, sep) ==
    LET at == {k \in DOMAIN line : line[k] = sep}
    IN  IF at = {} THEN <<line>>
        ELSE LET k == CHOOSE x \in at : \A z \in at : x <= z
             IN  <<SubSeq(line, 1, k - 1)>> \o split(SubSeq(line, k + 1, Len(line)), sep)

RECURSIVE Join(_, _)
\* The line of a file whose fields are tokens.
Join(tokens, sep) ==
    IF Len(tokens) = 0 THEN <<>>
    ELSE IF Len(tokens) = 1 THEN tokens[1]
    ELSE tokens[1] \o <<sep>> \o Join(Tail(tokens), sep)

\* line.find(word) != npos
Contains(line, word) ==
    \E k \in 1..(Len(line) - Len(word) + 1) : SubSeq(line, k, k + Len(word) - 1) = word

RECURSIVE while_pairs(_, _)
\* The loop of the BayesPairing branch from the (0-based) index i on; tokens
\* holds at least one token, so tokens.size() - 1 does not wrap.
while_pairs_StopsBeforeTail(tokens, i) ==
    IF i < Len(tokens) - 2
    THEN (IF stoi(tokens[i + 1]) < stoi(tokens[i + 2])
          THEN <<Component(stoi(tokens[i + 1]), stoi(tokens[i + 2]))>>
          ELSE <<>>) \o while_pairs(tokens, i + 2)
    ELSE <<>>

while_pairs(tokens, i) ==
    IF i < Len(tokens) - 1
    THEN (IF stoi(tokens[i + 1]) < stoi(tokens[i + 2])
          THEN <<Component(stoi(tokens[i + 1]), stoi(tokens[i + 2]))>>
          ELSE <<>>) \o while_pairs(tokens, i + 2)
    ELSE <<>>

\* Motif(csv_line) on a line of BayesPairing (a line holding True or False is
\* one of jar3d and takes the other branch).
Motif_csv ==
    /\ decoder.pc = "call"
    /\ ~Contains(decoder.csv_line, <<"T", "r", "u", "e">>)
    /\ ~Contains(decoder.csv_line, <<"F", "a", "l", "s", "e">>)
    /\ decoder' = [decoder EXCEPT !.pc = "done",
                                  !.comp = while_pairs(split(decoder.csv_line, ","), 2)]
    /\ UNCHANGED <<moip_vars, rna_vars, motif_vars, reader, energy_vars>>

\* Lines of an identifier, a score, up to MaxComponents pairs of positions
\* among Positions and, or not, one more token after the last pair.
MaxComponents == 3

Positions == {2, 5, 12}

CsvLine(fields) ==
    Join(<<fields.id, to_string(fields.score)>>
             \o FlattenSeq([k \in 1..Len(fields.pairs) |->
                    <<to_string(fields.pairs[k][1]), to_string(fields.pairs[k][2])>>])
             \o fields.extra,
         ",")

InitDecoder ==
    /\ \E fields \in [id : {<<"m">>}, score : {7},
                      pairs : UNION {[1..m -> Positions \X Positions]
                                        : m \in 0..MaxComponents},
                      extra : {<<>>} \cup {<<to_string(n)>> : n \in Positions}] :
          decoder = [fields |-> fields, csv_line |-> CsvLine(fields), pc |-> "call",
                     comp |-> <<>>]
    /\ ReaderIdle
    /\ EnergyIdle
    /\ FinderIdle
    /\ RNAIdle
    /\ MOIPIdle

SpecDecoder == InitDecoder /\ [][Motif_csv]_vars

\* C22: from a line of BayesPairing the decoder makes, in order, one component
\* [s, e] for every pair with s < e and none for a pair with s >= e; the last
\* pair of the line is decoded like the others, and a token left alone after
\* the last pair is not read as a pair.
C22_OneComponentPerPair ==
    decoder.pc = "done" =>
        LET pairs == decoder.fields.pairs
            good  == SelectSeq(pairs, LAMBDA p : p[1] < p[2])
        IN  decoder.comp = [k \in 1..Len(good) |-> Component(good[k][1], good[k][2])]

\* A line with a pair to skip, a well-formed last pair and one more token.
C22_Witness ==
    /\ decoder.pc = "done"
    /\ Len(decoder.fields.pairs) = MaxComponents
    /\ decoder.fields.pairs[1][1] >= decoder.fields.pairs[1][2]
    /\ decoder.fields.pairs[MaxComponents][1] < decoder.fields.pairs[MaxComponents][2]
    /\ decoder.fields.extra # <<>>
    /\ Len(decoder.comp) = 2
    /\ decoder.comp[2] = Component(decoder.fields.pairs[MaxComponents][1],
                                   decoder.fields.pairs[MaxComponents][2])

\* ------------------------------------------------ claims on the walker
\* C23: the forbid clause that a successful solve_objective adds for the
\* assignment it returns is violated by that assignment and satisfied by every
\* other 0/1 assignment of the y and C variables; the call removes exactly
\* that assignment from the feasible set.
C23_ForbidsExactlyOne ==
    [][Len(solved') = Len(solved) + 1 =>
          LET a      == solved'[Len(solved')]
              clause == model_'[Len(model_')]
          IN  /\ Len(model_') = Len(model_) + 1
              /\ \A b \in Assignments : Holds(clause, b) <=> b # a
              /\ a \in feasible_
              /\ feasible_' = feasible_ \ {a}]_vars

\* A returned assignment with a motif inserted and a pair set has been forbidden.
C23_Witness ==
    /\ Len(solved) >= 2
    /\ \E k \in DOMAIN solved : solved[k].C # {} /\ solved[k].y # {}
    /\ insertion_dv_ > 0
    /\ basepair_dv_ > 1

\* ------------------------------------------------ add_solution on any list
\* A call add_solution(s) on a list pareto_ of any structures: frame holds the
\* argument s and the list as it was at the call.
add_solution_call ==
    /\ frame.pc = "add_solution"
    /\ pareto_' = add_solution(pareto_, frame.s)
    /\ frame' = [frame EXCEPT !.pc = "added"]
    /\ UNCHANGED <<rna_, theta_, insertion_sites_, index_of_yuv_, index_of_Cxip_,
                   index_of_first_components, basepair_dv_, insertion_dv_, model_,
                   obj1, obj2, cplex_, feasible_, solved, delivered>>
    /\ UNCHANGED <<rna_vars, motif_vars, parser_vars, energy_vars>>

\* Lists of up to MaxList structures with objectives 0, 1, 2.
MaxList == 3

Structures ==
    [is_empty_structure : {FALSE}, motifs : {{}}, basepairs : {{}},
     obj1 : 0..2, obj2 : 0..2]

InitAddSolution ==
    /\ pareto_ \in UNION {[1..m -> Structures] : m \in 0..MaxList}
    /\ \E s \in Structures :
          frame = [pc |-> "add_solution", lambdaMin |-> <<>>, s |-> s, before |-> pareto_]
    /\ rna_ = [n |-> 0, pij |-> <<>>]
    /\ theta_ = 0
    /\ insertion_sites_ = <<>>
    /\ index_of_yuv_ = <<>>
    /\ basepair_dv_ = 0
    /\ index_of_Cxip_ = <<>>
    /\ index_of_first_components = <<>>
    /\ insertion_dv_ = 0
    /\ model_ = <<>>
    /\ obj1 = <<>>
    /\ obj2 = <<>>
    /\ cplex_ = [errors |-> FALSE, status |-> "Unknown"]
    /\ feasible_ = {}
    /\ solved = <<>>
    /\ delivered = <<>>
    /\ RNAIdle
    /\ FinderIdle
    /\ ParsersIdle
    /\ EnergyIdle

SpecAddSolution == InitAddSolution /\ [][add_solution_call]_vars

\* C24: add_solution(s) leaves in pareto_ the previous list without the
\* elements that s dominates, the others in their order, and s at the end.
C24_RemovesDominatedAppends ==
    frame.pc = "added" =>
        pareto_ = Append(SelectSeq(frame.before, LAMBDA e : ~Dominates(frame.s, e)),
                         frame.s)

\* The first and the last of three elements were dominated, the middle one not.
C24_Witness ==
    /\ frame.pc = "added"
    /\ Len(frame.before) = MaxList
    /\ Dominates(frame.s, frame.before[1])
    /\ ~Dominates(frame.s, frame.before[2])
    /\ Dominates(frame.s, frame.before[MaxList])
    /\ pareto_ = <<frame.before[2], frame.s>>

\* ------------------------------------------------ Motif(v, rinfile, id, reversed)
\* std::string::npos, the largest size_t: npos + 1 wraps to 0.
npos == -1

\* str.find(ch): the index (from 0) of the first ch, npos when there is none.
find(str, ch) ==
    LET at == {k \in DOMAIN str : str[k] = ch}
    IN  IF at = {} THEN npos ELSE (CHOOSE x \in at : \A z \in at : x <= z) - 1

\* str.substr(0, count) and str.erase(0, count): count is cut to the length,
\* and npos is larger than any length.
substr(str, count) ==
    IF count = npos THEN str ELSE SubSeq(str, 1, Min2(count, Len(str)))

erase(str, count) ==
    IF count = npos THEN <<>> ELSE SubSeq(str, Min2(count, Len(str)) + 1, Len(str))

\* The body of the loop on the links line: the Link that is read and what is
\* left of the line.
ParseLink(line) ==
    LET index     == find(line, ";")
        link_str  == substr(line, index)
        rest      == erase(line, index + 1)
        sub_index == find(link_str, ",")
        first     == stoi(substr(link_str, sub_index))
        link_str2 == erase(link_str, sub_index + 1)
        sub_idx2  == find(link_str2, ",")
        second    == stoi(substr(link_str2, sub_idx2))
        link_str3 == erase(link_str2, sub_idx2 + 1)
    IN  [link |-> [nts |-> <<first, second>>,
                   long_range |-> (link_str3 = <<"T", "r", "u", "e">>)],
         line |-> rest]

\* One iteration of "while (line != "")".  The list links_ is unbounded in the
\* program; the model stops the loop at MaxLinks links.
MaxLinks == 4

read_link ==
    /\ reader.pc = "links"
    /\ reader.line # <<>>
    /\ Len(reader.links_) < MaxLinks
    /\ reader' = [reader EXCEPT !.line = ParseLink(reader.line).line,
                                !.links_ = Append(@, ParseLink(reader.line).link)]
    /\ UNCHANGED <<moip_vars, rna_vars, motif_vars, decoder, energy_vars>>

\* The loop ends: the constructor goes on with the components.
links_read ==
    /\ reader.pc = "links"
    /\ reader.line = <<>>
    /\ reader' = [reader EXCEPT !.pc = "components"]
    /\ UNCHANGED <<moip_vars, rna_vars, motif_vars, decoder, energy_vars>>

\* Links lines of up to MaxRecords records "first,second,True|False" separated
\* by ";", the last record followed by ";" (closed) or not.
MaxRecords == 2

LinksLine(records, closed) ==
    LET LinkRecord(link) ==
            to_string(link.nts[1]) \o <<",">> \o to_string(link.nts[2]) \o <<",">>
                \o (IF link.long_range THEN <<"T", "r", "u", "e">>
                    ELSE <<"F", "a", "l", "s", "e">>)
    IN  Join([k \in 1..Len(records) |-> LinkRecord(records[k])], ";")
            \o (IF closed /\ records # <<>> THEN <<";">> ELSE <<>>)

InitReader ==
    /\ \E records \in UNION {[1..m -> [nts : {3, 12} \X {3, 12}, long_range : BOOLEAN]]
                                  : m \in 0..MaxRecords},
          closed \in BOOLEAN :
          reader = [records |-> records, closed |-> closed,
                    line |-> LinksLine(records, closed), pc |-> "links", links_ |-> <<>>]
    /\ DecoderIdle
    /\ EnergyIdle
    /\ FinderIdle
    /\ RNAIdle
    /\ MOIPIdle

NextReader == read_link \/ links_read

SpecReader == InitReader /\ [][NextReader]_vars

\* C25: the link-parsing loop takes one iteration for each link record of the
\* line, appending one Link, and ends, whether or not the last record is
\* followed by ";".
C25_OneIterationPerRecord ==
    /\ Len(reader.links_) <= Len(reader.records)
    /\ reader.pc = "components" => reader.links_ = reader.records

\* ------------------------------------------------ RNA::GHL
\* The characters of seq_ as the numbers a comparison takes them for.
Ascii(ch) ==
    CASE ch = "A" -> 65 [] ch = "C" -> 67 [] ch = "G" -> 71 [] ch = "U" -> 85

\* The codes of the bases: they index tables of 4 entries after "- 1", and
\* BASE_N indexes them as it is.
BASE_N == 0
BASE_A == 1
BASE_C == 2
BASE_G == 3
BASE_U == 4

base_type(x) ==
    CASE x = "A" -> BASE_A [] x = "C" -> BASE_C [] x = "G" -> BASE_G
      [] x = "U" -> BASE_U [] OTHER -> BASE_N

\* bseq_[k], k from 0.
bseq_(k) == base_type(seq_[k + 1])

\* RNA::allowed_basepair(u, v)
RNA_allowed_basepair(u, v) ==
    LET a == IF v > u THEN u ELSE v
        b == IF v > u THEN v ELSE u
    IN  b - a >= 4 /\ a < n_ - 4 /\ b < n_

\* The flag polyC after the loop over the nucleotides between i and j.
polyC(i, j) == \A k \in (i + 1)..(j - 1) : Ascii(seq_[k + 1]) = BASE_C

\* The summands of GHL(i, j), by the name of the parameter each is read from.
GHLTerms(i, j) ==
    LET size == j - i - 1
    IN  {"hairpin37"}
        \cup (IF size = 3
              THEN {"Gpenalty", "triloop37"}
                   \cup (IF polyC(i, j) THEN {"polyC_penalty"} ELSE {})
                   \cup (IF bseq_(i + 1) = BASE_G /\ bseq_(i + 2) = BASE_G
                            /\ bseq_(j - 1) = BASE_G
                         THEN {"hairpin_GGG"} ELSE {})
              ELSE IF size = 4
              THEN {"tloop37", "mismatch_hairpin37"}
                   \cup (IF polyC(i, j) THEN {"polyC_slope * size + polyC_int"} ELSE {})
              ELSE {"mismatch_hairpin37"}
                   \cup (IF polyC(i, j) THEN {"polyC_slope * size + polyC_int"} ELSE {}))

\* A call GHL(i, j); its two assertions hold.
GHL_call ==
    /\ energy.pc = "call"
    /\ energy.fn = "GHL"
    /\ energy.j - energy.i - 1 >= 3
    /\ RNA_allowed_basepair(energy.i, energy.j)
    /\ energy' = [energy EXCEPT !.pc = "done", !.result = GHLTerms(energy.i, energy.j)]
    /\ UNCHANGED <<moip_vars, rna_vars, motif_vars, parser_vars>>

\* Sequences of MinLen to HairpinLen nucleotides A, C, G and the hairpins
\* (i, j) of at least 3 nucleotides on them.
HairpinLen == 7

InitHairpin ==
    /\ seq_ \in UNION {[1..len -> {"A", "C", "G"}] : len \in MinLen..HairpinLen}
    /\ \E i \in 0..(HairpinLen - 1), j \in 0..(HairpinLen - 1) :
          /\ j - i - 1 >= 3
          /\ j < Len(seq_)
          /\ energy = [fn |-> "GHL", i |-> i, h |-> 0, m |-> 0, j |-> j, pc |-> "call",
                       result |-> <<>>]
    /\ fast = FALSE
    /\ uninit_ = 0
    /\ loop = [fn |-> "idle", l |-> 0, ran |-> {}]
    /\ Q = <<>> /\ Qb = <<>> /\ Qm = <<>>
    /\ Qs = <<>> /\ Qms = <<>> /\ Qx = <<>> /\ Qx1 = <<>> /\ Qx2 = <<>>
    /\ P = <<>> /\ Pb = <<>> /\ Pm = <<>>
    /\ snap = <<>>
    /\ accesses = <<>>
    /\ MOIPIdle
    /\ FinderIdle
    /\ ParsersIdle

SpecHairpin == InitHairpin /\ [][GHL_call]_vars

\* C26: GHL(i, j) adds the poly-C term (polyC_penalty for a loop of 3,
\* polyC_slope * size + polyC_int for a longer one) exactly when every
\* nucleotide strictly between i and j is C.
C26_PolyCExactly ==
    (energy.fn = "GHL" /\ energy.pc = "done") =>
        ((energy.result \cap {"polyC_penalty", "polyC_slope * size + polyC_int"} # {})
            <=> \A k \in (energy.i + 1)..(energy.j - 1) : seq_[k + 1] = "C")

\* C27: with a solver that always answers, every structure of the set that
\* extend_pareto(-inf, +inf) returns is Pareto-optimal in the whole model: no
\* assignment feasible under the constraints of define_problem_constraints,
\* returned by a solve or not, dominates it in (obj1, obj2).
C27_ParetoOptimal ==
    frame.pc = "done" =>
        \A a \in Feasible(define_problem_constraints) :
            \A i \in 1..Len(pareto_) : ~Dominates(BuildStructure(a), pareto_[i])

\* The walker has returned a set of two structures, after erasing one, and
\* some feasible assignment was never returned by a solve.
C27_Witness ==
    /\ frame.pc = "done"
    /\ Len(pareto_) >= 2
    /\ Len(delivered) > Len(pareto_)
    /\ \E a \in Feasible(define_problem_constraints) :
          \A k \in 1..Len(solved) : solved[k] # a

C29_AllZeroFeasible ==
    /\ Built =>
          \A k \in 1..Len(define_problem_constraints) :
              Holds(define_problem_constraints[k], [y |-> {}, C |-> {}])
    /\ frame.pc = "done" => Len(pareto_) >= 1

\* ------------------------------------------------ RNA::GIL, the case taken
\* A variant of GILCase whose generic case needs both an asymmetry above 1
\* and a size above 4.
GILCase_BothConditions(i, h, m, j) ==
    LET l1        == h - i - 1
        l2        == j - m - 1
        size      == l1 + l2
        asymmetry == IF l1 > l2 THEN l1 - l2 ELSE l2 - l1
    IN  IF size = 0 THEN "stack"
        ELSE IF l1 = 0 \/ l2 = 0 THEN "bulge"
        ELSE IF l1 > 0 /\ l2 > 0
        THEN IF asymmetry > 1 /\ size > 4
             THEN IF l1 > 1 /\ l2 > 1 THEN "generic"
                  ELSE IF l1 = 1 \/ l2 = 1 THEN "generic"
                  ELSE "assert: unclassified interior loop"
             ELSE IF l1 = 1 /\ l2 = 1 THEN "1x1"
             ELSE IF l1 = 2 /\ l2 = 2 THEN "2x2"
             ELSE IF l1 = 1 /\ l2 = 2 THEN "1x2"
             ELSE IF l1 = 2 /\ l2 = 1 THEN "2x1"
             ELSE "assert: error in tabulated interior loop"
        ELSE "assert: improperly classifed interior loop"

\* The branch of GIL(i, h, m, j) that computes the energy, or the assertion
\* that fails.
GILCase(i, h, m, j) ==
    LET l1        == h - i - 1
        l2        == j - m - 1
        size      == l1 + l2
        asymmetry == IF l1 > l2 THEN l1 - l2 ELSE l2 - l1
    IN  IF size = 0 THEN "stack"
        ELSE IF l1 = 0 \/ l2 = 0 THEN "bulge"
        ELSE IF l1 > 0 /\ l2 > 0
        THEN IF asymmetry > 1 \/ size > 4
             THEN IF l1 > 1 /\ l2 > 1 THEN "generic"
                  ELSE IF l1 = 1 \/ l2 = 1 THEN "generic"
                  ELSE "assert: unclassified interior loop"
             ELSE IF l1 = 1 /\ l2 = 1 THEN "1x1"
             ELSE IF l1 = 2 /\ l2 = 2 THEN "2x2"
             ELSE IF l1 = 1 /\ l2 = 2 THEN "1x2"
             ELSE IF l1 = 2 /\ l2 = 1 THEN "2x1"
             ELSE "assert: error in tabulated interior loop"
        ELSE "assert: improperly classifed interior loop"

\* A call GIL(i, h, m, j).
GIL_call ==
    /\ energy.pc = "call"
    /\ energy.fn = "GIL"
    /\ energy' = [energy EXCEPT !.pc = "done",
                     !.result = GILCase(energy.i, energy.h, energy.m, energy.j)]
    /\ UNCHANGED <<moip_vars, rna_vars, motif_vars, parser_vars>>

\* Pairs (i, j) and (h, m), i < h < m < j, with up to MaxLoop unpaired
\* nucleotides on each side and 3 or 4 between h and m.
MaxLoop == 5

InitInterior ==
    /\ \E i \in 0..2, l1 \in 0..MaxLoop, l2 \in 0..MaxLoop, inner \in 4..5 :
          energy = [fn |-> "GIL", i |-> i, h |-> i + l1 + 1, m |-> i + l1 + 1 + inner,
                    j |-> i + l1 + 1 + inner + l2 + 1, pc |-> "call", result |-> <<>>]
    /\ RNAIdle
    /\ MOIPIdle
    /\ FinderIdle
    /\ ParsersIdle

SpecInterior == InitInterior /\ [][GIL_call]_vars

\* C30: for i < h < m < j, with l1 = h - i - 1 and l2 = j - m - 1, GIL(i,h,m,j)
\* takes exactly one of its cases, the one of its loop sizes: stack (both 0),
\* bulge (one of them 0), generic interior loop (asymmetry above 1 or size above
\* 4), or the tables 1x1, 2x2, 1x2, 2x1; no assertion fails.
C30_OneCaseNoAssert ==
    (energy.fn = "GIL" /\ energy.pc = "done") =>
        LET l1   == energy.h - energy.i - 1
            l2   == energy.j - energy.m - 1
            asym == IF l1 > l2 THEN l1 - l2 ELSE l2 - l1
        IN  /\ energy.i < energy.h /\ energy.h < energy.m /\ energy.m < energy.j
            /\ energy.result \in {"stack", "bulge", "generic", "1x1", "2x2", "1x2", "2x1"}
            /\ energy.result = "stack" <=> (l1 = 0 /\ l2 = 0)
            /\ energy.result = "bulge" <=> ((l1 = 0 \/ l2 = 0) /\ l1 + l2 > 0)
            /\ energy.result = "generic" <=>
                   (l1 > 0 /\ l2 > 0 /\ (asym > 1 \/ l1 + l2 > 4))
            /\ energy.result = "1x1" <=> (l1 = 1 /\ l2 = 1)
            /\ energy.result = "2x2" <=> (l1 = 2 /\ l2 = 2)
            /\ energy.result = "1x2" <=> (l1 = 1 /\ l2 = 2)
            /\ energy.result = "2x1" <=> (l1 = 2 /\ l2 = 1)

\* A loop of 1 and 3 unpaired nucleotides (asymmetry 2, size 4) took the
\* generic case.
C30_Witness ==
    /\ energy.fn = "GIL"
    /\ energy.pc = "done"
    /\ energy.h - energy.i - 1 = 1
    /\ energy.j - energy.m - 1 = 3
    /\ energy.result = "generic"

====
